---- MODULE Spec2Model ----
(***************************************************************************)
(* Workflow orchestrator of mcp-router (core/cognitive/orchestrator.py).   *)
(*                                                                         *)
(* The orchestrator runs on one asyncio event loop.  A coroutine gives up  *)
(* the loop only where an await really suspends.  asyncio.Lock.acquire     *)
(* returns at once when the lock is free, and no critical section of the   *)
(* orchestrator contains an await, so the lock is never found held: the    *)
(* only suspension point of execute_workflow is the workflow body          *)
(* (workflow.execute).  The variable current names the call that holds the *)
(* event loop between two of its own steps; while it is set no other call, *)
(* cleanup or registration runs.                                           *)
(*                                                                         *)
(* Execution ids are workflow_id + "_" + wall-clock timestamp; the clock   *)
(* advances between two calls, so ids are <<workflow_id, now>> and every   *)
(* call that reads the clock moves it on.                                  *)
(*                                                                         *)
(* Beside the orchestrator the module holds the session transport with its *)
(* rate limiter and heartbeat loop (services/api/mcp/transport.py), the    *)
(* per-tool rate limiter (packages/backend/src/api/mcp/security.py), the   *)
(* byte-stream transport (services/transport/stdio.py), the websocket      *)
(* manager, the tool registry (packages/backend/src/api/mcp/tools.py) and  *)
(* the validation of inbound messages (api/middleware/protocol.py,         *)
(* api/models/messages.py), the websocket endpoint and the execute_tool    *)
(* boundary of the MCP server (packages/backend/src/api/mcp/server.py,     *)
(* tools.py), the HTTP security middleware                                 *)
(* (services/api/middleware/security.py) and the protocol monitor          *)
(* (services/api/mcp/monitoring.py).  The components share the clock; a    *)
(* component that calls into another one writes that one's variables;      *)
(* each has its own next-state relation and specification, which leaves   *)
(* the variables of the others unchanged.                                  *)
(***************************************************************************)
EXTENDS Integers, FiniteSets, Sequences, TLC

\* ---------------------------------------------------------------- bounds
NumCallers == 3          \* concurrent callers of the orchestrator
MaxTime == 4             \* last value of the model clock
HourTicks == 1           \* model clock units per hour (3600 s in the code)
NumClients == 2          \* websocket connections the session transport sees
MaxMessages == 5         \* messages the session transport receives in a run
RateLimit == 2           \* messages per window (100 in the code)
WindowTicks == 2         \* model clock units per window (60 s in the code)
MaxRequests == 3         \* request ids the byte-stream transport generates
MaxIncoming == 2         \* incoming messages the transport dispatches in a run
NumSockets == 3          \* websockets the websocket manager is handed in a run
DeadTicks == 2           \* dead-connection threshold in ticks (5 minutes)
MaxCalls == 3            \* calls of execute_tool in a run
DurationsKept == 2       \* duration samples a tool keeps (100 in the code)
MaxFrames == 3           \* frames the websocket endpoint receives in a run
MaxHttpRequests == 4     \* requests the HTTP security layer sees in a run
HttpLimit == 2           \* max_requests of the HTTP layer (100 in the code)
MaxRecords == 3          \* record_message and record_error calls in a run
MaxRotations == 2        \* rotate_metrics calls in a run
MetricsWindowTicks == 2  \* model clock units per metrics window (3600 s)

\* ------------------------------------------------------ program constants
max_concurrent_workflows == 2
max_memory_mb == 100
max_cpu_time_seconds == 10

None == 0 - 1            \* Optional[datetime] = None

Tasks == 1..NumCallers
NoTask == 0

WorkflowIds == {"test"}
Classes == {"SystemMonitoringWorkflow", "MonitoringWorkflow"}

valid_services == {"screenshot", "network", "clipboard"}

\* inputs of execute_workflow: the keys of monitoring_config that carry a
\* sub-config, and the enabled services
Contexts ==
    {[monitoring_config |-> {"screenshot", "network", "clipboard"},
      enabled_services |-> {"screenshot", "network"}],
     [monitoring_config |-> {},
      enabled_services |-> {"invalid_service"}],
     [monitoring_config |-> {"network"},
      enabled_services |-> {"network", "invalid_service"}],
     [monitoring_config |-> {},
      enabled_services |-> {"screenshot"}]}

\* ru_maxrss in MB and the CPU seconds a workflow body used
MemorySamples == {max_memory_mb, max_memory_mb + 1}
CpuSamples == {max_cpu_time_seconds, max_cpu_time_seconds + 1}
MaxAgeChoices == {0, 1}

\* the two entry points that run a workflow, and what a workflow body does
Entries == {"execute_workflow", "workflow/execute"}
Outcomes == {"return", "raise"}

VARIABLES
    workflows,          \* _workflows: workflow id -> workflow class
    active_workflows,   \* _active_workflows: execution id -> WorkflowState
    active_gauge,       \* _metrics.active_workflows
    now,                \* datetime.now(UTC)
    current,            \* the call that holds the event loop mid-segment
    pc,                 \* position of each caller's execute_workflow
    call,               \* locals of each caller's call in progress
    result              \* what the last finished operation returned or raised

\* session transport (services/api/mcp/transport.py)
VARIABLES
    issued,                 \* the client ids uuid4 has handed out
    active_connections,     \* _active_connections: the client ids in it
    connection_metadata,    \* _connection_metadata: client id -> metadata
    protocol_violations,    \* len(_protocol_diagnostics["protocol_violations"])
    received,               \* messages receive_json has returned
    accepted,               \* client id -> every time a message was accepted
    last_message,           \* what the last loop iteration did
    last_heartbeat,         \* client id -> "last_heartbeat" of its metadata
    looping                 \* the client ids whose handle_connection is in its loop

\* per-tool rate limiter (packages/backend/src/api/mcp/security.py)
VARIABLES
    rate_limits,            \* rate_limits: tool name -> RateLimitState
    admitted_calls,         \* tool name -> every time a call was admitted
    reference_window,       \* tool name -> timestamps a sliding window keeps
    last_call               \* what the last check_rate_limit answered

\* byte-stream transport (services/transport/stdio.py and base.py)
VARIABLES
    connected,              \* _connected
    pending_requests,       \* _pending_requests: request id -> waiting caller
    message_handlers,       \* _message_handlers: the methods with a handler
    message_queue,          \* _message_queue
    request,                \* each caller's send_request: id and future
    next_id,                \* the next id uuid4 hands out
    incoming,               \* count of the lines that were parsed and were
                            \* not the response to a pending request
    yielded,                \* the incoming messages listen() has yielded
    listener,               \* position of the consumer of listen()
    last_processed          \* what _process_message did with the last line

\* websocket manager (packages/backend/src/api/services/websocket_manager.py)
VARIABLES
    connections,            \* _connections: client id -> websocket
    manager_metadata,       \* _metadata: client id -> metadata
    active_tasks,           \* _active_tasks: the _handle_disconnection tasks alive
    websocket_state,        \* each websocket: unused, open or closed
    registering,            \* the register_connection calls suspended in close()
    bound                   \* client id -> websocket of the last call that returned

\* heartbeat loops (services/api/mcp/transport.py and mcp.py)
VARIABLES
    heartbeat_round,        \* the round of MCPTransport._heartbeat_monitor under way
    monitor_logged          \* MCPServer._heartbeat_monitor has logged an exception

\* tool registry (packages/backend/src/api/mcp/tools.py, services/api/mcp/metrics.py)
VARIABLES
    tools,                  \* ToolRegistry.tools: tool name -> definition
    metrics,                \* MetricsCollector.metrics: tool name -> ToolMetrics
    executing,              \* each caller's execute_tool: the tool whose handler it awaits
    tool_result,            \* how the last execute_tool that ended ended
    last_registration,      \* how the last register_tool ended
    started,                \* calls of execute_tool made so far
    ended                   \* tool name -> how many handler runs returned
                            \* and raised, and the most calls in flight

\* message validation (packages/backend/src/api/middleware/protocol.py, models/messages.py, core/cognitive/orchestrator.py handle_request)
VARIABLES
    inbound,                \* the entry point a message came in by, and the message
    answer                  \* what the entry point answered and whether a handler ran

\* websocket endpoint of the tool server (packages/backend/src/api/mcp/server.py)
VARIABLES
    socket_open,            \* the websocket of /ws is accepted and not closed
    frames                  \* the frames receive_text has returned and what followed each

\* HTTP security layer (services/api/middleware/security.py)
VARIABLES
    redis_available,        \* the key-value cache answers
    redis_keys,             \* the apikey: entries in the cache
    redis_counts,           \* the ratelimit: counter of each client id in the current window
    http_requests,          \* requests dispatch has seen
    http_response           \* the last request and what dispatch returned

\* execute_tool up to the call of the handler, on the state of the per-tool limiter (packages/backend/src/api/mcp/tools.py)
VARIABLES
    boundary_call           \* the last execute_tool: which steps ran and how it went on

\* a handler of the byte-stream transport that calls send_request (services/transport/stdio.py _read_loop)
VARIABLES
    handler_call            \* the send_request of the handler the read loop is awaiting

\* protocol monitor (services/api/mcp/monitoring.py)
VARIABLES
    current_metrics,        \* _current_metrics: the bucket the record calls write
    historical_metrics,     \* _historical_metrics: the buckets rotated out, oldest first
    recorded,               \* the record_message and record_error calls made so far
    rotations,              \* the rotate_metrics calls made so far
    aged_out                \* a rotation has dropped a bucket older than the metrics window

orchestrator_vars ==
    <<workflows, active_workflows, active_gauge, current, pc, call, result>>
session_vars ==
    <<issued, active_connections, connection_metadata, protocol_violations,
      received, accepted, last_message, last_heartbeat, looping>>

vars == <<workflows, active_workflows, active_gauge, now, current, pc, call,
          result, issued, active_connections, connection_metadata,
          protocol_violations, received, accepted, last_message,
          last_heartbeat, looping,
          rate_limits, admitted_calls, reference_window, last_call,
          connected, pending_requests, message_handlers, message_queue,
          request, next_id, incoming, yielded, listener, last_processed,
          connections, manager_metadata, active_tasks, websocket_state,
          registering, bound,
          heartbeat_round, monitor_logged,
          tools, metrics, executing, tool_result, last_registration,
          started, ended,
          inbound, answer,
          socket_open, frames,
          redis_available, redis_keys, redis_counts, http_requests, http_response,
          boundary_call,
          handler_call,
          current_metrics, historical_metrics, recorded, rotations, aged_out>>
stdio_vars ==
    <<connected, pending_requests, message_handlers, message_queue, request,
      next_id, incoming, yielded, listener, last_processed>>
security_vars == <<rate_limits, admitted_calls, reference_window, last_call>>
manager_vars ==
    <<connections, manager_metadata, active_tasks, websocket_state,
      registering, bound>>
heartbeat_vars == <<heartbeat_round, monitor_logged>>
registry_vars ==
    <<tools, metrics, executing, tool_result, last_registration, started,
      ended>>
protocol_vars == <<inbound, answer>>
endpoint_vars == <<socket_open, frames>>
http_vars == <<redis_available, redis_keys, redis_counts, http_requests, http_response>>
boundary_vars == <<boundary_call>>
nested_vars == <<handler_call>>
monitor_vars == <<current_metrics, historical_metrics, recorded, rotations, aged_out>>

\* what the steps of one component leave alone (the clock is moved by Tick
\* and read by the orchestrator, the session transport and the limiter)
other_than_orchestrator == <<session_vars, security_vars, stdio_vars, manager_vars, heartbeat_vars, registry_vars, protocol_vars, endpoint_vars, http_vars, boundary_vars, nested_vars, monitor_vars>>
other_than_session == <<orchestrator_vars, security_vars, stdio_vars, manager_vars, heartbeat_vars, registry_vars, protocol_vars, endpoint_vars, http_vars, boundary_vars, nested_vars, monitor_vars>>
other_than_security == <<orchestrator_vars, session_vars, stdio_vars, manager_vars, heartbeat_vars, registry_vars, protocol_vars, endpoint_vars, http_vars, boundary_vars, nested_vars, monitor_vars>>
other_than_stdio == <<orchestrator_vars, session_vars, security_vars, manager_vars, heartbeat_vars, registry_vars, protocol_vars, endpoint_vars, http_vars, boundary_vars, nested_vars, monitor_vars, now>>
other_than_manager == <<orchestrator_vars, session_vars, security_vars, stdio_vars, heartbeat_vars, registry_vars, protocol_vars, endpoint_vars, http_vars, boundary_vars, nested_vars, monitor_vars, now>>
\* the heartbeat loop of the session transport writes the session maps
other_than_heartbeat == <<orchestrator_vars, security_vars, stdio_vars, manager_vars, registry_vars, protocol_vars, endpoint_vars, http_vars, boundary_vars, nested_vars, monitor_vars>>
other_than_registry == <<orchestrator_vars, session_vars, security_vars, stdio_vars, manager_vars, heartbeat_vars, protocol_vars, endpoint_vars, http_vars, boundary_vars, nested_vars, monitor_vars, now>>
other_than_protocol == <<orchestrator_vars, session_vars, security_vars, stdio_vars, manager_vars, heartbeat_vars, registry_vars, endpoint_vars, http_vars, boundary_vars, nested_vars, monitor_vars, now>>
other_than_endpoint == <<orchestrator_vars, session_vars, security_vars, stdio_vars, manager_vars, heartbeat_vars, registry_vars, protocol_vars, http_vars, boundary_vars, nested_vars, monitor_vars, now>>
other_than_http == <<orchestrator_vars, session_vars, security_vars, stdio_vars, manager_vars, heartbeat_vars, registry_vars, protocol_vars, endpoint_vars, boundary_vars, nested_vars, monitor_vars, now>>
\* execute_tool calls check_rate_limit, which reads the clock
other_than_boundary == <<orchestrator_vars, session_vars, stdio_vars, manager_vars, heartbeat_vars, registry_vars, protocol_vars, endpoint_vars, http_vars, nested_vars, monitor_vars>>
\* the handler runs inside the read loop and calls into the transport
other_than_nested == <<orchestrator_vars, session_vars, security_vars, manager_vars, heartbeat_vars, registry_vars, protocol_vars, endpoint_vars, http_vars, boundary_vars, monitor_vars, now>>
other_than_monitor == <<orchestrator_vars, session_vars, security_vars, stdio_vars, manager_vars, heartbeat_vars, registry_vars, protocol_vars, endpoint_vars, http_vars, boundary_vars, nested_vars, now>>

NoId == <<"", None>>
NoContext == [monitoring_config |-> {}, enabled_services |-> {}]
NoCall == [entry |-> "", workflow_id |-> "", context |-> NoContext,
           execution_id |-> NoId]
NoResult == [kind |-> "none", message |-> "", names |-> {},
             execution_id |-> NoId, removed |-> 0]

Returned(id) ==
    [kind |-> "returned", message |-> "", names |-> {},
     execution_id |-> id, removed |-> 0]

\* what the caller sees raised: execute_workflow re-raises the exception,
\* _handle_workflow_execute turns every exception into an MCPError
Raised(entry, kind, message, names, id) ==
    [kind |-> IF entry = "workflow/execute" THEN "MCPError" ELSE kind,
     message |-> message, names |-> names, execution_id |-> id, removed |-> 0]

WorkflowState(wf, t0) ==
    [workflow_id |-> wf, status |-> "running", start_time |-> t0,
     end_time |-> None, results |-> None, error |-> "None"]

\* an id without the timestamp
make_execution_id_no_time(workflow_id, time) == <<workflow_id, 0>>

\* execution_id = f"{workflow_id}_{datetime.now(UTC).isoformat()}"
make_execution_id(workflow_id, time) == <<workflow_id, time>>

\* d[key] = value on a dict
Put(d, key, value) ==
    [k \in (DOMAIN d) \cup {key} |-> IF k = key THEN value ELSE d[k]]

\* a validator that lets every service through
validate_services_none(services) == {}

\* WorkflowContext.validate_services: the services outside the allow-list
validate_services(services) == services \ valid_services

\* SystemMonitoringWorkflow.validate: every enabled service has a sub-config
validate(context) ==
    \A service_name \in context.enabled_services :
        service_name \in context.monitoring_config

CeilingMessage == "Maximum concurrent workflows exceeded"
CpuMessage == "CPU time limit exceeded"

\* the ceiling test with > for >=
check_resource_limits_gt(executions, memory_usage) ==
    IF Cardinality(DOMAIN executions) > max_concurrent_workflows
    THEN CeilingMessage
    ELSE IF memory_usage > max_memory_mb
         THEN "Memory limit exceeded"
         ELSE "ok"

\* _check_resource_limits: "ok" or the message of the ResourceExhaustion
check_resource_limits(executions, memory_usage) ==
    IF Cardinality(DOMAIN executions) >= max_concurrent_workflows
    THEN CeilingMessage
    ELSE IF memory_usage > max_memory_mb
         THEN "Memory limit exceeded"
         ELSE "ok"

InitOrchestrator ==
    /\ workflows = << >>
    /\ active_workflows = << >>
    /\ active_gauge = 0
    /\ now = 0
    /\ current = NoTask
    /\ pc = [t \in Tasks |-> "idle"]
    /\ call = [t \in Tasks |-> NoCall]
    /\ result = NoResult

\* a registration without the duplicate test
register_workflow_overwrite(workflow_id, workflow_class) ==
    /\ current = NoTask
    /\ workflows' = Put(workflows, workflow_id, workflow_class)
    /\ result' = NoResult
    /\ UNCHANGED <<active_workflows, active_gauge, now, current, pc, call>>

\* register_workflow
register_workflow(workflow_id, workflow_class) ==
    /\ current = NoTask
    /\ IF workflow_id \in DOMAIN workflows
       THEN /\ result' = Raised("register_workflow", "ValueError",
                                "already registered", {}, NoId)
            /\ UNCHANGED workflows
       ELSE /\ workflows' = Put(workflows, workflow_id, workflow_class)
            /\ result' = NoResult
    /\ UNCHANGED <<active_workflows, active_gauge, now, current, pc, call>>

\* execute_workflow and _handle_workflow_execute up to the end of the first
\* lock section: lookup, validation, creation of the execution state,
\* insertion into the map and gauge increment
execute_workflow(t, entry, workflow_id, context) ==
    /\ current = NoTask
    /\ pc[t] = "idle"
    /\ IF workflow_id \notin DOMAIN workflows
       THEN /\ result' = Raised(entry, "ValueError", "not found", {}, NoId)
            /\ UNCHANGED <<workflows, active_workflows, active_gauge, now,
                           current, pc, call>>
       ELSE IF validate_services(context.enabled_services) # {}
       THEN /\ result' = Raised(entry, "ValueError", "Invalid services",
                                validate_services(context.enabled_services), NoId)
            /\ UNCHANGED <<workflows, active_workflows, active_gauge, now,
                           current, pc, call>>
       ELSE /\ now < MaxTime
            /\ LET execution_id == make_execution_id(workflow_id, now)
                   state == WorkflowState(workflow_id, now)
               IN /\ active_workflows' = Put(active_workflows, execution_id, state)
                  /\ active_gauge' = active_gauge + 1
                  /\ call' = [call EXCEPT ![t] =
                         [entry |-> entry, workflow_id |-> workflow_id,
                          context |-> context, execution_id |-> execution_id]]
            /\ now' = now + 1
            /\ pc' = [pc EXCEPT ![t] = "inserted"]
            /\ current' = t
            /\ UNCHANGED <<workflows, result>>

\* the state object of a call in progress (the object the map refers to)
StateOf(t) ==
    IF call[t].execution_id \in DOMAIN active_workflows
    THEN active_workflows[call[t].execution_id]
    ELSE WorkflowState(call[t].workflow_id, call[t].execution_id[2])

\* a failure path that forgets the gauge
Fail_no_dec(t, kind, message) ==
    LET execution_id == call[t].execution_id
        failed == [StateOf(t) EXCEPT !.status = "failed", !.end_time = now,
                                     !.error = message]
    IN /\ active_workflows' = Put(active_workflows, execution_id, failed)
       /\ active_gauge' = active_gauge
       /\ result' = Raised(call[t].entry, kind, message, {}, execution_id)
       /\ pc' = [pc EXCEPT ![t] = "idle"]
       /\ call' = [call EXCEPT ![t] = NoCall]
       /\ current' = NoTask

\* the except and finally blocks: the state becomes failed, is stored again
\* and the gauge is decremented; the error reaches the caller
Fail(t, kind, message) ==
    LET execution_id == call[t].execution_id
        failed == [StateOf(t) EXCEPT !.status = "failed", !.end_time = now,
                                     !.error = message]
    IN /\ active_workflows' = Put(active_workflows, execution_id, failed)
       /\ active_gauge' = active_gauge - 1
       /\ result' = Raised(call[t].entry, kind, message, {}, execution_id)
       /\ pc' = [pc EXCEPT ![t] = "idle"]
       /\ call' = [call EXCEPT ![t] = NoCall]
       /\ current' = NoTask

\* the success path and the finally block; the stored results are kept as
\* the cpu_time of their resource_usage entry
Complete(t, cpu_time) ==
    LET execution_id == call[t].execution_id
        completed == [StateOf(t) EXCEPT !.status = "completed",
                                        !.end_time = now,
                                        !.results = cpu_time]
    IN /\ active_workflows' = Put(active_workflows, execution_id, completed)
       /\ active_gauge' = active_gauge - 1
       /\ result' = Returned(execution_id)
       /\ pc' = [pc EXCEPT ![t] = "idle"]
       /\ call' = [call EXCEPT ![t] = NoCall]
       /\ current' = NoTask

\* _execute_with_resource_management up to the suspension in the workflow
\* body: _check_resource_limits, then workflow.execute starts
begin_execution(t, memory_usage) ==
    /\ current = t
    /\ pc[t] = "inserted"
    /\ LET limit == check_resource_limits(active_workflows, memory_usage)
       IN IF limit = "ok"
          THEN /\ pc' = [pc EXCEPT ![t] = "executing"]
               /\ current' = NoTask
               /\ UNCHANGED <<active_workflows, active_gauge, call, result>>
          ELSE Fail(t, "ResourceExhaustion", limit)
    /\ UNCHANGED <<workflows, now>>

\* an exit path without the CPU time test
finish_execution_no_cpu(t, outcome, cpu_time) ==
    /\ current = NoTask
    /\ pc[t] = "executing"
    /\ IF outcome = "raise"
       THEN Fail(t, "Exception", "workflow error")
       ELSE Complete(t, cpu_time)
    /\ UNCHANGED <<workflows, now>>

\* the workflow body returns or raises; CPU check, state update, finally
finish_execution(t, outcome, cpu_time) ==
    /\ current = NoTask
    /\ pc[t] = "executing"
    /\ IF outcome = "raise"
       THEN Fail(t, "Exception", "workflow error")
       ELSE IF cpu_time > max_cpu_time_seconds
            THEN Fail(t, "ResourceExhaustion", CpuMessage)
            ELSE Complete(t, cpu_time)
    /\ UNCHANGED <<workflows, now>>

\* a cleanup that ages records by their start time
to_remove_by_start(max_age_hours) ==
    {execution_id \in DOMAIN active_workflows :
        (now - active_workflows[execution_id].start_time)
            > max_age_hours * HourTicks}

\* cleanup_completed_workflows: the ids the comprehension selects
to_remove(max_age_hours) ==
    {execution_id \in DOMAIN active_workflows :
        /\ active_workflows[execution_id].end_time # None
        /\ (now - active_workflows[execution_id].end_time)
               > max_age_hours * HourTicks}

cleanup_completed_workflows(max_age_hours) ==
    /\ current = NoTask
    /\ active_workflows' =
           [execution_id \in (DOMAIN active_workflows) \ to_remove(max_age_hours)
               |-> active_workflows[execution_id]]
    /\ result' = [NoResult EXCEPT !.kind = "cleanup",
                      !.removed = Cardinality(to_remove(max_age_hours))]
    /\ UNCHANGED <<workflows, active_gauge, now, current, pc, call>>

\* get_workflow_state: the status query answers from the map, None for an
\* id the map does not hold
get_workflow_state(execution_id) ==
    /\ current = NoTask
    /\ result' = [NoResult EXCEPT !.kind = "state",
                      !.execution_id = execution_id,
                      !.message = IF execution_id \in DOMAIN active_workflows
                                  THEN active_workflows[execution_id].status
                                  ELSE "None"]
    /\ UNCHANGED <<workflows, active_workflows, active_gauge, now, current,
                   pc, call>>

\* wall-clock time passes
Tick ==
    /\ now < MaxTime
    /\ now' = now + 1
    /\ UNCHANGED <<workflows, active_workflows, active_gauge, current, pc,
                   call, result>>

\* ------------------------------------------------------ session transport
Clients == 1..NumClients
NoClient == 0
Faults == {"none", "prune", "record", "update"}

NoMessage == [client_id |-> NoClient, verdict |-> "none", fault |-> "none",
              code |-> "none", processed |-> FALSE]

\* a window that never forgets
prune_nothing(message_timestamps, current_time) == message_timestamps

\* [ts for ts in message_timestamps if ts > window_start]
prune(message_timestamps, current_time) ==
    LET window_start == current_time - WindowTicks
    IN SelectSeq(message_timestamps, LAMBDA ts : ts > window_start)

\* _validate_message_rate: "accept" for True, "reject" for False, "raise"
\* when a step of the check fails (fault names the failing step: the
\* pruning, the recording of the violation, the update of the metadata);
\* with it the timestamps to store and the violations appended
validate_message_rate(client_id, current_time, fault) ==
    LET metadata == IF client_id \in DOMAIN connection_metadata
                    THEN connection_metadata[client_id]
                    ELSE [message_timestamps |-> << >>]
        message_timestamps == prune(metadata.message_timestamps, current_time)
        unchanged == metadata.message_timestamps
    IN IF fault = "prune"
       THEN [verdict |-> "raise", fault |-> fault,
             message_timestamps |-> unchanged, violations |-> 0]
       ELSE IF Len(message_timestamps) >= RateLimit
       THEN [verdict |-> IF fault = "record" THEN "raise" ELSE "reject",
             fault |-> IF fault = "record" THEN fault ELSE "none",
             message_timestamps |-> unchanged, violations |-> 1]
       ELSE IF fault = "update"
       THEN [verdict |-> "raise", fault |-> fault,
             message_timestamps |-> unchanged, violations |-> 0]
       ELSE [verdict |-> "accept", fault |-> "none",
             message_timestamps |-> Append(message_timestamps, current_time),
             violations |-> 0]

\* a loop that answers every refusal with INTERNAL_ERROR
error_code_internal(verdict) == "INTERNAL_ERROR"

\* the error the loop of handle_connection sends: RATE_LIMIT_EXCEEDED when
\* the check returns False, INTERNAL_ERROR from the except clause when the
\* check raises or when the call of _process_message raises (MCPTransport
\* defines no _process_message, the call raises AttributeError)
error_code(verdict) ==
    IF verdict = "reject" THEN "RATE_LIMIT_EXCEEDED" ELSE "INTERNAL_ERROR"

\* a loop that goes on to process unless the check returned False
passed_to_processing_on_raise(verdict) == verdict # "reject"

\* the loop reaches the call of _process_message
passed_to_processing(verdict) == verdict = "accept"

InitSession ==
    /\ issued = {}
    /\ active_connections = {}
    /\ connection_metadata = << >>
    /\ protocol_violations = 0
    /\ received = 0
    /\ accepted = [c \in Clients |-> << >>]
    /\ last_message = NoMessage
    /\ last_heartbeat = [c \in Clients |-> None]
    /\ looping = {}

\* handle_connection up to the loop: a fresh client id, metadata, the
\* connection stored, the welcome message
handle_connection(client_id) ==
    /\ client_id \notin issued
    /\ issued' = issued \cup {client_id}
    /\ connection_metadata' =
           Put(connection_metadata, client_id, [message_timestamps |-> << >>])
    /\ active_connections' = active_connections \cup {client_id}
    /\ last_heartbeat' = [last_heartbeat EXCEPT ![client_id] = now]
    /\ looping' = looping \cup {client_id}
    /\ last_message' = [NoMessage EXCEPT !.client_id = client_id,
                                         !.code = "welcome"]
    /\ UNCHANGED <<protocol_violations, received, accepted, now>>

\* one iteration of the loop of handle_connection: receive_json, the rate
\* check, then the error answer or the call of _process_message.  The loop
\* does not look into the connection map: it goes on for as long as
\* receive_json returns messages
receive_message(client_id, fault) ==
    /\ client_id \in looping
    /\ received < MaxMessages
    /\ LET check == validate_message_rate(client_id, now, fault)
       IN /\ connection_metadata' =
                 IF check.verdict = "accept"
                 THEN Put(connection_metadata, client_id,
                          [message_timestamps |-> check.message_timestamps])
                 ELSE connection_metadata
          /\ protocol_violations' = protocol_violations + check.violations
          /\ accepted' = IF check.verdict = "accept"
                         THEN [accepted EXCEPT ![client_id] = Append(@, now)]
                         ELSE accepted
          /\ last_message' =
                 [client_id |-> client_id, verdict |-> check.verdict,
                  fault |-> check.fault, code |-> error_code(check.verdict),
                  processed |-> passed_to_processing(check.verdict)]
    /\ received' = received + 1
    /\ UNCHANGED <<issued, active_connections, last_heartbeat, looping, now>>

\* receive_json raises WebSocketDisconnect; the finally block forgets the
\* connection and its metadata
disconnect(client_id) ==
    /\ client_id \in looping
    /\ looping' = looping \ {client_id}
    /\ active_connections' = active_connections \ {client_id}
    /\ connection_metadata' =
           [c \in (DOMAIN connection_metadata) \ {client_id}
               |-> connection_metadata[c]]
    /\ last_heartbeat' = [last_heartbeat EXCEPT ![client_id] = None]
    /\ last_message' = [NoMessage EXCEPT !.client_id = client_id,
                                         !.code = "closed"]
    /\ UNCHANGED <<issued, protocol_violations, received, accepted, now>>

\* ------------------------------------------------------ per-tool limiter
\* the tools and their rate_limit field (None: no limit)
Tools == {"limited", "unlimited"}
rate_limit(tool) == IF tool = "limited" THEN RateLimit ELSE None

NoCheck == [tool |-> "", admitted |-> TRUE, window_admitted |-> TRUE]

\* a limit test that lets one more call through
over_limit_gt(count, limit) == count > limit

\* state.count >= tool.rate_limit
over_limit(count, limit) == count >= limit

\* a limiter that starts a new window a full window after the last call
new_window_ge(elapsed) == elapsed >= WindowTicks

\* (now - state.last_execution) > timedelta(seconds=60)
new_window(elapsed) == elapsed > WindowTicks

\* the sliding window of _validate_message_rate over the call times of one
\* tool: the verdict and the timestamps it keeps
sliding_window(message_timestamps, current_time, limit) ==
    LET kept == prune(message_timestamps, current_time)
    IN IF Len(kept) >= limit
       THEN [admitted |-> FALSE, message_timestamps |-> message_timestamps]
       ELSE [admitted |-> TRUE,
             message_timestamps |-> Append(kept, current_time)]

InitSecurity ==
    /\ rate_limits = << >>
    /\ admitted_calls = [tool \in Tools |-> << >>]
    /\ reference_window = [tool \in Tools |-> << >>]
    /\ last_call = NoCheck

\* SecurityManager.check_rate_limit: returns (admitted) or raises
\* SecurityError; the sliding window is run on the same call beside it
check_rate_limit(tool) ==
    LET state == rate_limits[tool]
        reference == IF rate_limit(tool) = None
                     THEN [admitted |-> TRUE,
                           message_timestamps |-> reference_window[tool]]
                     ELSE sliding_window(reference_window[tool], now,
                                         rate_limit(tool))
        admitted == IF rate_limit(tool) = None THEN TRUE
                    ELSE IF tool \notin DOMAIN rate_limits THEN TRUE
                    ELSE IF new_window(now - state.last_execution) THEN TRUE
                    ELSE ~over_limit(state.count, rate_limit(tool))
    IN /\ rate_limits' =
              IF rate_limit(tool) = None THEN rate_limits
              ELSE IF tool \notin DOMAIN rate_limits
              THEN Put(rate_limits, tool, [last_execution |-> now, count |-> 1])
              ELSE IF new_window(now - state.last_execution)
              THEN Put(rate_limits, tool, [last_execution |-> now, count |-> 1])
              ELSE IF over_limit(state.count, rate_limit(tool))
              THEN rate_limits
              ELSE Put(rate_limits, tool,
                       [last_execution |-> now, count |-> state.count + 1])
       /\ admitted_calls' =
              IF admitted /\ rate_limit(tool) # None
              THEN [admitted_calls EXCEPT ![tool] = Append(@, now)]
              ELSE admitted_calls
       /\ reference_window' =
              [reference_window EXCEPT ![tool] = reference.message_timestamps]
       /\ last_call' = [tool |-> tool, admitted |-> admitted,
                        window_admitted |-> reference.admitted]
       /\ UNCHANGED now

\* -------------------------------------------------- byte-stream transport
\* The callers of send_request are the tasks; request ids stand for the
\* uuid4 strings, a fresh one for every request.
Ids == 1..MaxRequests
Missing == ""
Methods == {Missing, "tools/call"}
Bodies == {"params", "result", "error"}

\* the JSON lines the peer can write: id (None when absent), method (Missing
\* when absent) and the member the line carries beside them
Messages == [id : Ids \cup {None}, method : Methods, body : Bodies]

NoRequest == [id |-> None, future |-> "none", reply |-> None]
NoLine == [id |-> None, body |-> "params", parsed |-> FALSE,
           pending |-> FALSE, handler_ran |-> FALSE, sent |-> FALSE]

InitStdio ==
    /\ connected = FALSE
    /\ pending_requests = << >>
    /\ message_handlers = {}
    /\ message_queue = << >>
    /\ request = [t \in Tasks |-> NoRequest]
    /\ next_id = 1
    /\ incoming = 0
    /\ yielded = << >>
    /\ listener = "idle"
    /\ last_processed = NoLine

\* connect: the pipes are set up and the read loop is started
connect ==
    /\ ~connected
    /\ connected' = TRUE
    /\ UNCHANGED <<pending_requests, message_handlers, message_queue, request,
                   next_id, incoming, yielded, listener, last_processed>>

\* a disconnect that clears the map and leaves the futures alone
cancel_nothing(future) == future

\* if not future.done(): future.cancel()
cancel(future) == IF future = "pending" THEN "cancelled" ELSE future

\* disconnect: the read loop is cancelled, every future that is not done
\* is cancelled and the pending map is cleared
disconnect_transport ==
    /\ connected
    /\ connected' = FALSE
    /\ request' = [t \in Tasks |->
                      [request[t] EXCEPT !.future = cancel(@)]]
    /\ pending_requests' = << >>
    /\ UNCHANGED <<message_handlers, message_queue, next_id, incoming,
                   yielded, listener, last_processed>>

\* register_handler
register_handler(method) ==
    /\ message_handlers' = message_handlers \cup {method}
    /\ UNCHANGED <<connected, pending_requests, message_queue, request,
                   next_id, incoming, yielded, listener, last_processed>>

\* send_request up to "await response_future": RuntimeError when the
\* transport is not connected; else a fresh id, the future stored under
\* it, the line written.  The await has no timeout: request_timeout is
\* not used.
send_request(t) ==
    /\ request[t].future = "none"
    /\ IF ~connected
       THEN UNCHANGED <<request, pending_requests, next_id>>
       ELSE /\ next_id <= MaxRequests
            /\ request' = [request EXCEPT ![t] =
                              [id |-> next_id, future |-> "pending",
                               reply |-> None]]
            /\ pending_requests' = Put(pending_requests, next_id, t)
            /\ next_id' = next_id + 1
    /\ UNCHANGED <<connected, message_handlers, message_queue, incoming,
                   yielded, listener, last_processed>>

\* a lookup that takes some waiter of the pending map
waiter_of_any(id) ==
    pending_requests[CHOOSE k \in DOMAIN pending_requests : TRUE]

\* self._pending_requests.pop(message.id)
waiter_of(id) == pending_requests[id]

\* one round of _read_loop: readline and _process_message.  MCPMessage
\* requires method, so a line without it fails to parse and only counts as
\* an error.  A parsed line whose id is in the pending map completes that
\* future; any other parsed line goes to _handle_message, which runs the
\* handler registered for its method; for a line with an id the response
\* object cannot be built (MCPMessage without method), so nothing is ever
\* sent back.  Nothing is put on _message_queue.
read_message(message) ==
    /\ connected
    /\ incoming < MaxIncoming
    /\ LET parsed == message.method # Missing
           pending == parsed /\ message.id \in DOMAIN pending_requests
           handler_ran == parsed /\ ~pending
                              /\ message.method \in message_handlers
       IN /\ pending_requests' =
                 IF pending
                 THEN [k \in (DOMAIN pending_requests) \ {message.id}
                          |-> pending_requests[k]]
                 ELSE pending_requests
          /\ request' =
                 IF pending
                 THEN [request EXCEPT ![waiter_of(message.id)] =
                          [@ EXCEPT !.future = IF message.body = "error"
                                               THEN "exception" ELSE "result",
                                    !.reply = message.id]]
                 ELSE request
          /\ incoming' = IF parsed /\ ~pending THEN incoming + 1 ELSE incoming
          /\ last_processed' =
                 IF parsed
                 THEN [id |-> message.id, body |-> message.body,
                       parsed |-> TRUE, pending |-> pending,
                       handler_ran |-> handler_ran, sent |-> FALSE]
                 ELSE NoLine
    /\ UNCHANGED <<connected, message_handlers, message_queue, next_id,
                   yielded, listener>>

\* send_request after the await: the caller gets the result, the exception
\* or the cancellation of its future; the finally block pops its id
resume(t) ==
    /\ request[t].future \in {"result", "exception", "cancelled"}
    /\ request' = [request EXCEPT ![t] = NoRequest]
    /\ pending_requests' =
           [k \in (DOMAIN pending_requests) \ {request[t].id}
               |-> pending_requests[k]]
    /\ UNCHANGED <<connected, message_handlers, message_queue, next_id,
                   incoming, yielded, listener, last_processed>>

\* one step of the consumer of listen(): _message_queue.get() hands over
\* the head of the queue, or suspends the consumer on an empty queue
listen ==
    /\ IF message_queue = << >>
       THEN /\ listener' = "waiting"
            /\ UNCHANGED <<message_queue, yielded>>
       ELSE /\ listener' = "yielded"
            /\ yielded' = Append(yielded, Head(message_queue))
            /\ message_queue' = Tail(message_queue)
    /\ UNCHANGED <<connected, pending_requests, message_handlers, request,
                   next_id, incoming, last_processed>>

\* ------------------------------------------------------ websocket manager
\* The identities are the client ids; every register_connection call brings
\* a websocket of its own and, or not, a metadata dict.
Sockets == 1..NumSockets
NoSocket == 0
MetadataArgs == {"given", "None"}

\* metadata or {"connected_at": ...}: the dict stored for a call, tagged
\* with the websocket it came with
metadata_or_default(websocket, metadata_arg) ==
    [websocket |-> websocket,
     content |-> IF metadata_arg = "None" THEN "connected_at" ELSE "given"]

InitManager ==
    /\ connections = << >>
    /\ manager_metadata = << >>
    /\ active_tasks = {}
    /\ websocket_state = [w \in Sockets |-> "unused"]
    /\ registering = << >>
    /\ bound = [c \in Clients |-> NoSocket]

\* lines 59-69 of register_connection: both maps are written and the
\* _handle_disconnection task of the new websocket is started
store_connection(client_id, websocket, metadata_arg) ==
    /\ connections' = Put(connections, client_id, websocket)
    /\ manager_metadata' = Put(manager_metadata, client_id,
                       metadata_or_default(websocket, metadata_arg))
    /\ active_tasks' = active_tasks \cup {<<client_id, websocket>>}
    /\ bound' = [bound EXCEPT ![client_id] = websocket]

\* register_connection up to its first suspension: with no connection
\* under the id the whole call runs; else close() of the old websocket is
\* awaited (its failure is swallowed) and the call is suspended there
register_connection(client_id, websocket, metadata_arg) ==
    /\ websocket_state[websocket] = "unused"
    /\ IF client_id \in DOMAIN connections
       THEN /\ websocket_state' =
                  [websocket_state EXCEPT ![websocket] = "open",
                                          ![connections[client_id]] = "closed"]
            /\ registering' = Put(registering, websocket,
                                  [client_id |-> client_id,
                                   metadata_arg |-> metadata_arg])
            /\ UNCHANGED <<connections, manager_metadata, active_tasks, bound>>
       ELSE /\ websocket_state' = [websocket_state EXCEPT ![websocket] = "open"]
            /\ store_connection(client_id, websocket, metadata_arg)
            /\ UNCHANGED registering

\* register_connection after close() has returned
register_connection_resume(websocket) ==
    /\ websocket \in DOMAIN registering
    /\ store_connection(registering[websocket].client_id, websocket,
                        registering[websocket].metadata_arg)
    /\ registering' = [w \in (DOMAIN registering) \ {websocket}
                          |-> registering[w]]
    /\ UNCHANGED websocket_state

\* if client_id in d: del d[client_id]
forget(d, client_id) ==
    [c \in (DOMAIN d) \ {client_id} |-> d[c]]

\* _handle_disconnection: receive_text of the watched websocket raises (the
\* peer went away, or the websocket was closed); the task deletes whatever
\* is stored under its client id and ends
handle_disconnection(client_id, websocket) ==
    /\ <<client_id, websocket>> \in active_tasks
    /\ connections' = forget(connections, client_id)
    /\ manager_metadata' = forget(manager_metadata, client_id)
    /\ active_tasks' = active_tasks \ {<<client_id, websocket>>}
    /\ websocket_state' = [websocket_state EXCEPT ![websocket] = "closed"]
    /\ UNCHANGED <<registering, bound>>

\* ------------------------------------------------------ heartbeat loops
\* MCPTransport._heartbeat_monitor sleeps, takes a copy of the connection
\* map and sends a heartbeat to each connection of the copy; every send is
\* an await, so connections come and go while a round is under way.
\* MCPServer._heartbeat_monitor is the loop that compares the last
\* heartbeat with the threshold.
Results == {"ok", "failed"}

NoRound == [running |-> FALSE, current_time |-> None, snapshot |-> {},
            sent |-> << >>]

\* a loop that leaves the metadata of a failed connection in place
pop_nothing(d, client_id) == d

\* dict.pop(client_id, None)
pop(d, client_id) == forget(d, client_id)

InitHeartbeat ==
    /\ heartbeat_round = NoRound
    /\ monitor_logged = FALSE

\* asyncio.sleep returns: current_time is read and
\* list(self._active_connections.items()) is taken; with no connection the
\* loop is back in its sleep at once
heartbeat_monitor ==
    /\ ~heartbeat_round.running
    /\ heartbeat_round' = [running |-> active_connections # {},
                           current_time |-> now,
                           snapshot |-> active_connections,
                           sent |-> << >>]
    /\ UNCHANGED <<session_vars, monitor_logged, now>>

\* one iteration of the for loop: the heartbeat is sent to the next
\* connection of the copy (the copy is walked in any order); a send that
\* returns writes last_heartbeat into the metadata if the client still has
\* metadata, a send that raises pops the client from both maps.  A
\* connection that has gone since the copy was taken has a closed
\* websocket, the send to it raises.  After the last connection the loop
\* is back in its sleep.
heartbeat_send(client_id, outcome) ==
    /\ heartbeat_round.running
    /\ client_id \in heartbeat_round.snapshot \ DOMAIN heartbeat_round.sent
    /\ client_id \notin active_connections => outcome = "failed"
    /\ LET sent == Put(heartbeat_round.sent, client_id, outcome)
       IN heartbeat_round' =
              [heartbeat_round EXCEPT
                  !.sent = sent,
                  !.running = DOMAIN sent # heartbeat_round.snapshot]
    /\ IF outcome = "ok"
       THEN /\ last_heartbeat' =
                   IF client_id \in DOMAIN connection_metadata
                   THEN [last_heartbeat EXCEPT
                            ![client_id] = heartbeat_round.current_time]
                   ELSE last_heartbeat
            /\ UNCHANGED <<active_connections, connection_metadata>>
       ELSE /\ active_connections' = active_connections \ {client_id}
            /\ connection_metadata' = pop(connection_metadata, client_id)
            /\ last_heartbeat' = [last_heartbeat EXCEPT ![client_id] = None]
    /\ UNCHANGED <<issued, protocol_violations, received, accepted,
                   last_message, looping, monitor_logged, now>>

\* one round of MCPServer._heartbeat_monitor: the transport classes define
\* no get_active_connections (and MetricsCollector no get_last_heartbeat,
\* the transports no close_connection), the first call of the round raises
\* AttributeError, the except clause logs it and the loop sleeps again
server_heartbeat_monitor ==
    /\ monitor_logged' = TRUE
    /\ UNCHANGED <<session_vars, heartbeat_round, now>>

\* ------------------------------------------------------ tool registry
\* The registry runs on the event loop of its callers.  register_tool and
\* the two record calls contain no await that suspends; execute_tool
\* suspends in the tool's handler only.
ToolNames == {"", "echo"}
Descriptions == {"", "echoes"}
Versions == {"", "1.0.0"}
capability_fields == {"required_params", "param_types"}
\* rate_limit and timeout: not given, negative, zero, positive
Limits == {None, 0 - 2, 0, 1}

\* the Tool models a caller can build
ToolDefinitions ==
    [name : ToolNames, description : Descriptions, version : Versions,
     capabilities : SUBSET capability_fields, rate_limit : Limits,
     timeout : Limits]

\* the tools callers register while tools are executed: echo, echo again
\* with another definition, and a tool that is refused
echo == [name |-> "echo", description |-> "echoes", version |-> "1.0.0",
         capabilities |-> capability_fields, rate_limit |-> None,
         timeout |-> None]
SampleTools ==
    {echo,
     [echo EXCEPT !.rate_limit = 1, !.timeout = 1],
     [echo EXCEPT !.version = ""]}

\* an error message, as the keywords error.lower() contains
Keywords == {"validation", "timeout", "rate limit", "permission"}
ErrorMessages ==
    {{}, {"validation"}, {"timeout"}, {"rate limit"}, {"permission"},
     {"timeout", "validation"}}
NoError == {"none"}

\* the exceptions a handler raises
HandlerErrors == {"ExecutionError", "ValueError"}
Durations == {1, 2}

ToolMetrics == [total_calls |-> 0, successful_calls |-> 0,
                failed_calls |-> 0, durations |-> << >>,
                errors |-> << >>, last_error |-> NoError]

NoToolResult == [task |-> NoTask, tool |-> "", outcome |-> "none",
                 error |-> "none", in_flight |-> 0]
NoRegistration == [tool |-> None, outcome |-> "none", added |-> FALSE]

\* Python's truth value of an Optional[int]
truthy(value) == value # None /\ value # 0

\* SecurityManager._validate_capabilities
validate_capabilities(capabilities) ==
    \A field \in capability_fields : field \in capabilities

\* SecurityManager.validate_tool
validate_tool(tool) ==
    IF ~(tool.name # "" /\ tool.description # "" /\ tool.version # "")
    THEN FALSE
    ELSE IF ~validate_capabilities(tool.capabilities)
    THEN FALSE
    ELSE IF truthy(tool.rate_limit) /\ tool.rate_limit <= 0
    THEN FALSE
    ELSE IF truthy(tool.timeout) /\ tool.timeout <= 0
    THEN FALSE
    ELSE TRUE

\* MetricsCollector._get_or_create_metrics
get_or_create_metrics(tool_name) ==
    IF tool_name \in DOMAIN metrics THEN metrics[tool_name] ELSE ToolMetrics

\* metrics.durations[-100:]
last_durations(durations) ==
    IF Len(durations) > DurationsKept
    THEN SubSeq(durations, Len(durations) - DurationsKept + 1, Len(durations))
    ELSE durations

\* a collector that counts the call and forgets the success
record_execution_no_success(m, duration) ==
    [m EXCEPT !.total_calls = @ + 1,
              !.durations = last_durations(Append(@, duration))]

\* MetricsCollector.record_execution on the metrics of one tool
record_execution(m, duration) ==
    [m EXCEPT !.total_calls = @ + 1,
              !.successful_calls = @ + 1,
              !.durations = last_durations(Append(@, duration))]

\* MetricsCollector._categorize_error
categorize_error(error) ==
    IF "validation" \in error THEN "validation_error"
    ELSE IF "timeout" \in error THEN "timeout_error"
    ELSE IF "rate limit" \in error THEN "rate_limit_error"
    ELSE IF "permission" \in error THEN "permission_error"
    ELSE "other_error"

\* metrics.errors.get(error_type, 0)
errors_get(errors, error_type) ==
    IF error_type \in DOMAIN errors THEN errors[error_type] ELSE 0

\* MetricsCollector.record_failure on the metrics of one tool
record_failure(m, error) ==
    LET error_type == categorize_error(error)
    IN [m EXCEPT !.total_calls = @ + 1,
                 !.failed_calls = @ + 1,
                 !.last_error = error,
                 !.errors = Put(@, error_type, errors_get(@, error_type) + 1)]

InitRegistry ==
    /\ tools = << >>
    /\ metrics = << >>
    /\ executing = [t \in Tasks |-> ""]
    /\ tool_result = NoToolResult
    /\ last_registration = NoRegistration
    /\ started = 0
    /\ ended = [name \in ToolNames |->
                   [returned |-> 0, raised |-> 0, peak |-> 0]]

\* a registry that takes every name for a new one
already_registered_never(tool_name) == FALSE

\* tool.name in self.tools
already_registered(tool_name) == tool_name \in DOMAIN tools

\* ToolRegistry.register_tool: SecurityError when validate_tool answers
\* False; a name that is registered already is logged and the call returns;
\* else the tool is stored and record_registration gives it metrics unless
\* it has some
register_tool(tool) ==
    /\ IF ~validate_tool(tool)
       THEN /\ last_registration' = [tool |-> tool, outcome |-> "SecurityError",
                                     added |-> FALSE]
            /\ UNCHANGED <<tools, metrics>>
       ELSE IF already_registered(tool.name)
       THEN /\ last_registration' = [tool |-> tool, outcome |-> "returned",
                                     added |-> FALSE]
            /\ UNCHANGED <<tools, metrics>>
       ELSE /\ tools' = Put(tools, tool.name, tool)
            /\ metrics' = IF tool.name \in DOMAIN metrics THEN metrics
                          ELSE Put(metrics, tool.name, ToolMetrics)
            /\ last_registration' = [tool |-> tool, outcome |-> "returned",
                                     added |-> TRUE]
    /\ UNCHANGED <<executing, tool_result, started, ended>>

InFlight == {t \in Tasks : executing[t] # ""}
Max(a, b) == IF a >= b THEN a ELSE b
Min(a, b) == IF a <= b THEN a ELSE b

\* execute_tool up to the await of the handler.  get_tool and the
\* parameter check raise ValidationError with one argument where the class
\* of this module takes code and message, so the caller sees TypeError;
\* check_rate_limit raises SecurityError (its counting is the per-tool
\* limiter above, here it lets the call through or not; a tool without a
\* rate limit always passes); none of the three is inside the inner try,
\* so no metrics are written
execute_tool(t, tool_name, rate_ok, params_ok) ==
    /\ executing[t] = ""
    /\ started < MaxCalls
    /\ started' = started + 1
    /\ (tool_name \in DOMAIN tools /\ ~truthy(tools[tool_name].rate_limit))
           => rate_ok
    /\ IF tool_name \notin DOMAIN tools
       THEN /\ tool_result' = [task |-> t, tool |-> tool_name,
                                outcome |-> "raised", error |-> "TypeError",
                                in_flight |-> 0]
            /\ UNCHANGED executing
       ELSE IF ~rate_ok
       THEN /\ tool_result' = [task |-> t, tool |-> tool_name,
                                outcome |-> "raised", error |-> "SecurityError",
                                in_flight |-> 0]
            /\ UNCHANGED executing
       ELSE IF ~params_ok
       THEN /\ tool_result' = [task |-> t, tool |-> tool_name,
                                outcome |-> "raised", error |-> "TypeError",
                                in_flight |-> 0]
            /\ UNCHANGED executing
       ELSE /\ executing' = [executing EXCEPT ![t] = tool_name]
            /\ UNCHANGED tool_result
    /\ UNCHANGED <<tools, metrics, last_registration, ended>>

\* the handler returns: record_execution, then the result goes to the
\* caller
handler_returns(t, duration) ==
    /\ executing[t] # ""
    /\ metrics' = Put(metrics, executing[t],
                      record_execution(get_or_create_metrics(executing[t]),
                                       duration))
    /\ tool_result' = [task |-> t, tool |-> executing[t],
                        outcome |-> "returned", error |-> "none",
                        in_flight |-> Cardinality(InFlight)]
    /\ ended' = [ended EXCEPT
                    ![executing[t]].returned = @ + 1,
                    ![executing[t]].peak = Max(@, Cardinality(InFlight))]
    /\ executing' = [executing EXCEPT ![t] = ""]
    /\ UNCHANGED <<tools, last_registration, started>>

\* the exception the inner except clause of execute_tool hands on: a bare
\* raise
reraised(handler_error) == handler_error

\* the handler raises: record_failure with str(e), then the exception is
\* raised again
handler_raises(t, handler_error, message) ==
    /\ executing[t] # ""
    /\ metrics' = Put(metrics, executing[t],
                      record_failure(get_or_create_metrics(executing[t]),
                                     message))
    /\ tool_result' = [task |-> t, tool |-> executing[t],
                        outcome |-> "raised",
                        error |-> reraised(handler_error),
                        in_flight |-> Cardinality(InFlight)]
    /\ ended' = [ended EXCEPT
                    ![executing[t]].raised = @ + 1,
                    ![executing[t]].peak = Max(@, Cardinality(InFlight))]
    /\ executing' = [executing EXCEPT ![t] = ""]
    /\ UNCHANGED <<tools, last_registration, started>>

\* ---------------------------------------------------- message validation
\* The entry points keep nothing between two messages, so a run looks at
\* one message.  A message is the dict the entry point is given: which
\* keys it has and, where a check reads it, the value.
Absent == "absent"

\* ProtocolVersion and MessageType
ProtocolVersions == {"1.0", "1.1", "2.0"}
MessageTypes ==
    {"request", "response", "event", "error", "diagnostic", "heartbeat"}
max_message_id_length == 64

VersionValues == {Absent, "2.0", "3.0"}
TypeValues ==
    {Absent, "request", "response", "event", "heartbeat", "invalid_type"}
\* len(message_id), None for a message without message_id
IdLengths == {None, 0, 1, max_message_id_length + 1}
TypeFields == {"method", "params", "request_id", "event_type", "data",
               "source", "client_id", "uptime"}

\* the bodies of a POST to /api/; oversized says that the body is longer
\* than max_message_size_bytes
Envelopes ==
    [oversized : BOOLEAN, protocol_version : VersionValues,
     message_type : TypeValues, message_id : IdLengths,
     fields : SUBSET TypeFields]

\* the request_data handle_request is given
RequestFields == {"id", "method", "params"}
RequestMethods == {"workflow/list", "unknown/method"}
RequestData ==
    [oversized : BOOLEAN, fields : SUBSET RequestFields,
     method : RequestMethods]

NoInbound == [path |-> "none", message |-> Absent]
NoAnswer == [code |-> "none", handler_ran |-> FALSE]

\* ProtocolValidator.validate_message: "ok" or the code of the
\* ProtocolError
validate_message(data) ==
    IF data.protocol_version = Absent \/ data.message_type = Absent
    THEN "MISSING_REQUIRED_FIELDS"
    ELSE IF data.protocol_version \notin ProtocolVersions
    THEN "INVALID_PROTOCOL_VERSION"
    ELSE IF data.message_type \notin MessageTypes
    THEN "INVALID_MESSAGE_TYPE"
    ELSE IF data.message_type = "request"
            /\ ~({"method", "params"} \subseteq data.fields)
    THEN "MISSING_REQUEST_FIELDS"
    ELSE IF data.message_type = "response" /\ "request_id" \notin data.fields
    THEN "MISSING_RESPONSE_FIELDS"
    ELSE IF data.message_type = "event"
            /\ ~({"event_type", "data"} \subseteq data.fields)
    THEN "MISSING_EVENT_FIELDS"
    ELSE "ok"

\* the fields a message class requires beside those of BaseMessage
required_fields(message_type) ==
    IF message_type = "request" THEN {"method"}
    ELSE IF message_type = "response" THEN {"request_id"}
    ELSE IF message_type = "event" THEN {"event_type", "data", "source"}
    ELSE IF message_type = "heartbeat" THEN {"client_id", "uptime"}
    ELSE {}

\* RequestMessage(**data) and the other classes: "ok" or what the
\* constructor raises (pydantic's ValidationError for a missing field or a
\* value outside ProtocolVersion, the ProtocolError of validate_message_id)
construct(data) ==
    IF data.protocol_version \notin ProtocolVersions
           \/ data.message_id = None
           \/ ~(required_fields(data.message_type) \subseteq data.fields)
    THEN "ValidationError"
    ELSE IF data.message_id = 0 \/ data.message_id > max_message_id_length
    THEN "INVALID_MESSAGE_ID"
    ELSE "ok"

\* except Exception as e: raise ProtocolError(..., "MESSAGE_CREATION_ERROR");
\* ProtocolError is an Exception, so the clause takes it as well
except_clause(raised) == "MESSAGE_CREATION_ERROR"

\* MessageFactory.create_message: "ok" or the code of the ProtocolError
create_message(data) ==
    IF data.message_type = Absent THEN "INVALID_MESSAGE"
    ELSE LET raised == IF data.message_type \in MessageTypes
                       THEN construct(data)
                       ELSE "INVALID_MESSAGE_TYPE"
         IN IF raised = "ok" THEN "ok" ELSE except_clause(raised)

InitProtocol ==
    /\ inbound = NoInbound
    /\ answer = NoAnswer

\* ProtocolValidationMiddleware.dispatch for a path under /api/ and a body
\* that is JSON: validate_message, create_message, then call_next; the
\* code of a ProtocolError becomes the error_code of the response.  The
\* length of the body is not looked at.
dispatch(data) ==
    /\ inbound' = [path |-> "middleware", message |-> data]
    /\ answer' =
           IF validate_message(data) # "ok"
           THEN [code |-> validate_message(data), handler_ran |-> FALSE]
           ELSE IF create_message(data) # "ok"
           THEN [code |-> create_message(data), handler_ran |-> FALSE]
           ELSE [code |-> "ok", handler_ran |-> TRUE]

\* MessageFactory.create_message called by itself
create(data) ==
    /\ inbound' = [path |-> "factory", message |-> data]
    /\ answer' = [code |-> create_message(data), handler_ran |-> FALSE]

\* the methods of _request_handlers
request_handlers ==
    {"workflow/register", "workflow/execute", "workflow/status",
     "workflow/list", "initialize"}

\* CognitiveOrchestrator.handle_request: MCPRequest(**request_data), then
\* the size check, then the handler table.  A request_data that is no
\* MCPRequest raises pydantic's ValidationError, which the last except
\* clause answers with -32603; the size check raises
\* MCPError.invalid_request (-32600), an unknown method
\* MCPError.method_not_found (-32601)
handle_request(request_data) ==
    /\ inbound' = [path |-> "orchestrator", message |-> request_data]
    /\ answer' =
           IF request_data.fields # RequestFields
           THEN [code |-> "INTERNAL_ERROR", handler_ran |-> FALSE]
           ELSE IF request_data.oversized
           THEN [code |-> "INVALID_REQUEST", handler_ran |-> FALSE]
           ELSE IF request_data.method \notin request_handlers
           THEN [code |-> "METHOD_NOT_FOUND", handler_ran |-> FALSE]
           ELSE [code |-> "ok", handler_ran |-> TRUE]

\* ------------------------------------------------------ websocket endpoint
\* the messages a client sends down the websocket
SampleEnvelopes ==
    {[oversized |-> FALSE, protocol_version |-> "2.0",
      message_type |-> "request", message_id |-> 1,
      fields |-> {"method", "params"}],
     [oversized |-> FALSE, protocol_version |-> "2.0",
      message_type |-> "heartbeat", message_id |-> 1,
      fields |-> {"client_id", "uptime"}],
     [oversized |-> FALSE, protocol_version |-> "2.0",
      message_type |-> "invalid_type", message_id |-> 1,
      fields |-> {"method", "params"}],
     [oversized |-> FALSE, protocol_version |-> Absent,
      message_type |-> "request", message_id |-> None,
      fields |-> {"method"}]}

\* a frame of text: JSON or not, and the message it decodes to
Frames ==
    [decodable : BOOLEAN, data : SampleEnvelopes]

\* how execute_tool ends for a request
ToolOutcomes == {"RESPONSE", "EXECUTION_FAILED"}

InitEndpoint ==
    /\ socket_open = TRUE
    /\ frames = << >>

\* json.loads(data) stands in the outer try only: JSONDecodeError leaves
\* the loop
json_loads(frame) ==
    IF frame.decodable THEN "ok" ELSE "JSONDecodeError"

\* one iteration of the loop of websocket_endpoint: receive_text,
\* json.loads, create_message, and for a request execute_tool and the
\* response.  An exception outside the inner try blocks is logged and the
\* websocket closed.
receive_text(frame, tool_outcome) ==
    /\ socket_open
    /\ Len(frames) < MaxFrames
    /\ LET decoded == json_loads(frame)
           created == create_message(frame.data)
           is_request == frame.data.message_type = "request"
           sent == IF decoded = "JSONDecodeError" THEN "none"
                   ELSE IF created # "ok" THEN created
                   ELSE IF is_request THEN tool_outcome
                   ELSE "none"
           stays == decoded # "JSONDecodeError"
       IN /\ (decoded = "ok" /\ created = "ok" /\ is_request)
                 \/ tool_outcome = "RESPONSE"
          /\ socket_open' = stays
          /\ frames' = Append(frames,
                 [frame |-> frame, sent |-> sent, open_after |-> stays,
                  executed |-> decoded = "ok" /\ created = "ok"
                                   /\ is_request])

\* receive_text raises WebSocketDisconnect
websocket_disconnect ==
    /\ socket_open
    /\ socket_open' = FALSE
    /\ UNCHANGED frames

\* ------------------------------------------------------ HTTP security layer
\* the X-API-Key header: none, keys that start with "mcp_", another key
NoKey == ""
ApiKeys == {NoKey, "mcp_a", "mcp_b", "other"}

\* api_key.startswith("mcp_")
startswith_mcp(api_key) == api_key \in {"mcp_a", "mcp_b"}

\* _get_client_id: the key, or the address of the one client without key
get_client_id(api_key) ==
    IF api_key # NoKey THEN <<"apikey", api_key>> ELSE <<"ip", "client">>

ClientIds == {get_client_id(api_key) : api_key \in ApiKeys}

NoResponse ==
    [api_key |-> NoKey, redis |-> TRUE, status |-> 0, code |-> "none"]

InitHttp ==
    /\ redis_available = TRUE
    /\ redis_keys = {}
    /\ redis_counts = [c \in ClientIds |-> 0]
    /\ http_requests = 0
    /\ http_response = NoResponse

\* the except clause of _validate_api_key: return False
except_returns(by_prefix) == FALSE

\* SecurityMiddleware._validate_api_key
validate_api_key(api_key) ==
    IF api_key = NoKey THEN FALSE
    ELSE IF ~redis_available THEN except_returns(startswith_mcp(api_key))
    ELSE api_key \in redis_keys \/ startswith_mcp(api_key)

\* RateLimiter.check_rate_limit: incr, then count <= max_requests; True
\* when the cache call raises
check_rate_limit_http(client_id) ==
    IF ~redis_available THEN TRUE
    ELSE redis_counts[client_id] + 1 <= HttpLimit

\* SecurityMiddleware.dispatch for a path under /api/, with validate_keys
\* and rate_limit set
http_dispatch(api_key) ==
    /\ http_requests < MaxHttpRequests
    /\ http_requests' = http_requests + 1
    /\ LET key_ok == validate_api_key(api_key)
           client_id == get_client_id(api_key)
           rate_ok == check_rate_limit_http(client_id)
       IN /\ redis_keys' =
                 IF redis_available /\ key_ok
                 THEN redis_keys \cup {api_key} ELSE redis_keys
          /\ redis_counts' =
                 IF redis_available /\ key_ok
                 THEN [redis_counts EXCEPT ![client_id] = @ + 1]
                 ELSE redis_counts
          /\ http_response' =
                 [api_key |-> api_key, redis |-> redis_available,
                  status |-> IF ~key_ok THEN 401
                             ELSE IF ~rate_ok THEN 429 ELSE 200,
                  code |-> IF ~key_ok THEN "INVALID_API_KEY"
                           ELSE IF ~rate_ok THEN "RATE_LIMIT_EXCEEDED"
                           ELSE "ok"]
    /\ UNCHANGED redis_available

\* the cache goes away or comes back
redis_connection(available) ==
    /\ redis_available # available
    /\ redis_available' = available
    /\ UNCHANGED <<redis_keys, redis_counts, http_requests, http_response>>

\* the window ends: the counters of the window expire
window_expires ==
    /\ redis_counts # [c \in ClientIds |-> 0]
    /\ redis_counts' = [c \in ClientIds |-> 0]
    /\ UNCHANGED <<redis_available, redis_keys, http_requests, http_response>>

\* --------------------------------------------- the boundary of execute_tool
\* the names execute_tool is called with: the registered tools and a name
\* that is not registered
ToolCalls == Tools \cup {"missing"}

NoBoundaryCall ==
    [tool |-> "", looked_up |-> FALSE, rate_checked |-> FALSE,
     params_checked |-> FALSE, handler_invoked |-> FALSE, error |-> "none"]

InitBoundary == boundary_call = NoBoundaryCall

\* an execute_tool that checks the parameters of a call the limiter refused
params_checked_always(admitted) == TRUE

\* validate_params is called when check_rate_limit has returned
params_checked_after(admitted) == admitted

\* ToolRegistry.execute_tool up to "result = await tool.execute(params)":
\* get_tool (a name that is not registered raises: ValidationError built
\* with one argument, the caller sees TypeError), check_rate_limit
\* (SecurityError), validate_params (the same one-argument
\* ValidationError), then the handler.  Nothing here is inside the inner
\* try, so no metrics are written for a call that is refused.
execute_tool_boundary(tool_name, params_ok) ==
    IF tool_name \notin Tools
    THEN /\ boundary_call' = [NoBoundaryCall EXCEPT !.tool = tool_name,
                                            !.error = "TypeError"]
         /\ UNCHANGED <<security_vars, now>>
    ELSE /\ check_rate_limit(tool_name)
         /\ LET admitted == last_call'.admitted
                checked == params_checked_after(admitted)
            IN boundary_call' =
                   [tool |-> tool_name, looked_up |-> TRUE,
                    rate_checked |-> TRUE,
                    params_checked |-> checked,
                    handler_invoked |-> admitted /\ checked /\ params_ok,
                    error |-> IF ~admitted THEN "SecurityError"
                              ELSE IF checked /\ ~params_ok THEN "TypeError"
                              ELSE "none"]

\* ------------------------------------- a handler that calls send_request
\* _read_loop awaits _process_message, which awaits _handle_message, which
\* awaits the handler: while a handler runs, the loop reads no line.  The
\* handler here calls send_request of the transport it was called by.
InitNested == handler_call = NoRequest

\* the read loop is in readline
reading == handler_call.future = "none"

\* one round of _read_loop while no handler is awaited
read_line(message) ==
    /\ reading
    /\ read_message(message)
    /\ UNCHANGED handler_call

\* the read loop reads a line whose method has a handler, and the handler
\* comes to send_request: a fresh id, the future stored under it, the line
\* written, then "await response_future" inside the read loop's own task
handler_sends(message) ==
    /\ reading
    /\ connected
    /\ incoming < MaxIncoming
    /\ next_id <= MaxRequests
    /\ message.method \in message_handlers
    /\ message.id \notin DOMAIN pending_requests
    /\ handler_call' = [id |-> next_id, future |-> "pending", reply |-> None]
    /\ pending_requests' = Put(pending_requests, next_id, NoTask)
    /\ next_id' = next_id + 1
    /\ incoming' = incoming + 1
    /\ last_processed' = [id |-> message.id, body |-> message.body,
                          parsed |-> TRUE, pending |-> FALSE,
                          handler_ran |-> TRUE, sent |-> FALSE]
    /\ UNCHANGED <<connected, message_handlers, message_queue, request,
                   yielded, listener>>

\* the handler's send_request after the await: the finally block pops the
\* id, the handler goes on and the read loop is back in readline
handler_resumes ==
    /\ handler_call.future \in {"result", "exception", "cancelled"}
    /\ handler_call' = NoRequest
    /\ pending_requests' =
           [k \in (DOMAIN pending_requests) \ {handler_call.id}
               |-> pending_requests[k]]
    /\ UNCHANGED <<connected, message_handlers, message_queue, request,
                   next_id, incoming, yielded, listener, last_processed>>

\* disconnect cancels the future of the handler with the others
disconnect_all ==
    /\ disconnect_transport
    /\ handler_call' = [handler_call EXCEPT !.future = cancel(@)]

\* --------------------------------------------------------- protocol monitor
\* Every method of ProtocolMonitor that writes takes the lock and has no
\* await inside it, so each call is one step.
MessageKinds == {"request", "response"}
ErrorKinds == {"test_error"}

\* ProtocolMetrics(): empty counts, last_reset the time of its creation
ProtocolMetrics(created) ==
    [message_counts |-> << >>, error_counts |-> << >>, last_reset |-> created]

\* counts[kind] += 1 on a defaultdict(int)
increment(counts, kind) ==
    Put(counts, kind, IF kind \in DOMAIN counts THEN counts[kind] + 1 ELSE 1)

InitMonitor ==
    /\ current_metrics = ProtocolMetrics(0)
    /\ historical_metrics = << >>
    /\ recorded = [messages |-> 0, errors |-> 0]
    /\ rotations = 0
    /\ aged_out = FALSE

record_message(message_type) ==
    /\ recorded.messages + recorded.errors < MaxRecords
    /\ current_metrics' =
           [current_metrics EXCEPT
               !.message_counts = increment(@, message_type)]
    /\ recorded' = [recorded EXCEPT !.messages = @ + 1]
    /\ UNCHANGED <<historical_metrics, rotations, aged_out>>

record_error(error_type) ==
    /\ recorded.messages + recorded.errors < MaxRecords
    /\ current_metrics' =
           [current_metrics EXCEPT !.error_counts = increment(@, error_type)]
    /\ recorded' = [recorded EXCEPT !.errors = @ + 1]
    /\ UNCHANGED <<historical_metrics, rotations, aged_out>>

\* [m for m in history if m.last_reset > cutoff_time]
trim(history, cutoff_time) ==
    SelectSeq(history, LAMBDA bucket : bucket.last_reset > cutoff_time)

\* rotate_metrics: only when message_counts of the current bucket is not
\* empty the bucket is appended to the history and a new one started; the
\* history, the bucket just appended included, is then trimmed by
\* last_reset
rotate_metrics ==
    /\ rotations < MaxRotations
    /\ rotations' = rotations + 1
    /\ IF DOMAIN current_metrics.message_counts # {}
       THEN LET appended == Append(historical_metrics, current_metrics)
                kept == trim(appended, now - MetricsWindowTicks)
            IN /\ historical_metrics' = kept
               /\ current_metrics' = ProtocolMetrics(now)
               /\ aged_out' = (aged_out \/ kept # appended)
       ELSE UNCHANGED <<current_metrics, historical_metrics, aged_out>>
    /\ UNCHANGED recorded

\* sum(counts.values())
RECURSIVE sum_values(_)
sum_values(counts) ==
    IF DOMAIN counts = {} THEN 0
    ELSE LET kind == CHOOSE k \in DOMAIN counts : TRUE
         IN counts[kind] + sum_values([k \in (DOMAIN counts) \ {kind}
                                           |-> counts[k]])

\* the sum of one field over the buckets of a list
RECURSIVE sum_over(_, _)
sum_over(buckets, counts_field) ==
    IF buckets = << >> THEN 0
    ELSE sum_values(Head(buckets)[counts_field])
             + sum_over(Tail(buckets), counts_field)

\* get_aggregated_metrics: total_messages and total_errors over the
\* current bucket and the history
get_aggregated_metrics ==
    LET all_metrics == <<current_metrics>> \o historical_metrics
    IN [total_messages |-> sum_over(all_metrics, "message_counts"),
        total_errors |-> sum_over(all_metrics, "error_counts")]

\* ----------------------------------------------------- the specifications
Init ==
    /\ InitOrchestrator
    /\ InitSession
    /\ InitSecurity
    /\ InitStdio
    /\ InitManager
    /\ InitHeartbeat
    /\ InitRegistry
    /\ InitProtocol
    /\ InitEndpoint
    /\ InitHttp
    /\ InitBoundary
    /\ InitNested
    /\ InitMonitor

Next ==
    \/ /\ \E w \in WorkflowIds, c \in Classes : register_workflow(w, c)
       /\ UNCHANGED other_than_orchestrator
    \/ /\ \E t \in Tasks, e \in Entries, w \in WorkflowIds, c \in Contexts :
              execute_workflow(t, e, w, c)
       /\ UNCHANGED other_than_orchestrator
    \/ /\ \E t \in Tasks, m \in MemorySamples : begin_execution(t, m)
       /\ UNCHANGED other_than_orchestrator
    \/ /\ \E t \in Tasks, o \in Outcomes, c \in CpuSamples :
              finish_execution(t, o, c)
       /\ UNCHANGED other_than_orchestrator
    \/ /\ \E h \in MaxAgeChoices : cleanup_completed_workflows(h)
       /\ UNCHANGED other_than_orchestrator
    \/ /\ \E id \in (DOMAIN active_workflows) \cup {NoId} :
              get_workflow_state(id)
       /\ UNCHANGED other_than_orchestrator
    \/ /\ Tick
       /\ UNCHANGED other_than_orchestrator

Spec == Init /\ [][Next]_vars

NextSession ==
    \/ /\ \E c \in Clients : handle_connection(c)
       /\ UNCHANGED other_than_session
    \/ /\ \E c \in Clients, f \in Faults : receive_message(c, f)
       /\ UNCHANGED other_than_session
    \/ /\ \E c \in Clients : disconnect(c)
       /\ UNCHANGED other_than_session
    \/ /\ Tick
       /\ UNCHANGED other_than_orchestrator

SpecSession == Init /\ [][NextSession]_vars

NextSecurity ==
    \/ /\ \E tool \in Tools : check_rate_limit(tool)
       /\ UNCHANGED other_than_security
    \/ /\ Tick
       /\ UNCHANGED other_than_orchestrator

SpecSecurity == Init /\ [][NextSecurity]_vars

NextStdio ==
    \/ /\ connect
       /\ UNCHANGED other_than_stdio
    \/ /\ disconnect_transport
       /\ UNCHANGED other_than_stdio
    \/ /\ \E method \in Methods \ {Missing} : register_handler(method)
       /\ UNCHANGED other_than_stdio
    \/ /\ \E t \in Tasks : send_request(t)
       /\ UNCHANGED other_than_stdio
    \/ /\ \E message \in Messages : read_message(message)
       /\ UNCHANGED other_than_stdio
    \/ /\ \E t \in Tasks : resume(t)
       /\ UNCHANGED other_than_stdio
    \/ /\ listen
       /\ UNCHANGED other_than_stdio

SpecStdio == Init /\ [][NextStdio]_vars

NextManager ==
    \/ /\ \E c \in Clients, w \in Sockets, m \in MetadataArgs :
              register_connection(c, w, m)
       /\ UNCHANGED other_than_manager
    \/ /\ \E w \in Sockets : register_connection_resume(w)
       /\ UNCHANGED other_than_manager
    \/ /\ \E c \in Clients, w \in Sockets : handle_disconnection(c, w)
       /\ UNCHANGED other_than_manager

SpecManager == Init /\ [][NextManager]_vars

NextHeartbeat ==
    \/ /\ \E c \in Clients : handle_connection(c)
       /\ UNCHANGED other_than_session
    \/ /\ \E c \in Clients : disconnect(c)
       /\ UNCHANGED other_than_session
    \/ /\ heartbeat_monitor
       /\ UNCHANGED other_than_heartbeat
    \/ /\ \E c \in Clients, r \in Results : heartbeat_send(c, r)
       /\ UNCHANGED other_than_heartbeat
    \/ /\ server_heartbeat_monitor
       /\ UNCHANGED other_than_heartbeat
    \/ /\ Tick
       /\ UNCHANGED other_than_orchestrator

SpecHeartbeat == Init /\ [][NextHeartbeat]_vars

\* both loops are tasks of the event loop: a sleep ends, and a send to a
\* websocket returns or raises; whether clients come, go or fail and how
\* the clock moves is not the program's choice
FairSpecHeartbeat ==
    /\ SpecHeartbeat
    /\ WF_vars(heartbeat_monitor /\ UNCHANGED other_than_heartbeat)
    /\ WF_vars((\E c \in Clients, r \in Results : heartbeat_send(c, r))
               /\ UNCHANGED other_than_heartbeat)
    /\ WF_vars(server_heartbeat_monitor /\ UNCHANGED other_than_heartbeat)

\* registration alone, with every Tool a caller can build
NextRegistration ==
    /\ \E tool \in ToolDefinitions : register_tool(tool)
    /\ UNCHANGED other_than_registry

SpecRegistration == Init /\ [][NextRegistration]_vars

NextRegistry ==
    \/ /\ \E tool \in SampleTools : register_tool(tool)
       /\ UNCHANGED other_than_registry
    \/ /\ \E t \in Tasks, name \in ToolNames, rate_ok \in BOOLEAN,
             params_ok \in BOOLEAN : execute_tool(t, name, rate_ok, params_ok)
       /\ UNCHANGED other_than_registry
    \/ /\ \E t \in Tasks, d \in Durations : handler_returns(t, d)
       /\ UNCHANGED other_than_registry
    \/ /\ \E t \in Tasks, e \in HandlerErrors, m \in ErrorMessages :
              handler_raises(t, e, m)
       /\ UNCHANGED other_than_registry

SpecRegistry == Init /\ [][NextRegistry]_vars

\* one message in a run
NextProtocol ==
    \/ /\ inbound.path = "none"
       /\ \E data \in Envelopes : dispatch(data)
       /\ UNCHANGED other_than_protocol
    \/ /\ inbound.path = "none"
       /\ \E data \in Envelopes : create(data)
       /\ UNCHANGED other_than_protocol
    \/ /\ inbound.path = "none"
       /\ \E request_data \in RequestData : handle_request(request_data)
       /\ UNCHANGED other_than_protocol

SpecProtocol == Init /\ [][NextProtocol]_vars

NextEndpoint ==
    \/ /\ \E frame \in Frames, tool_outcome \in ToolOutcomes :
              receive_text(frame, tool_outcome)
       /\ UNCHANGED other_than_endpoint
    \/ /\ websocket_disconnect
       /\ UNCHANGED other_than_endpoint

SpecEndpoint == Init /\ [][NextEndpoint]_vars

NextHttp ==
    \/ /\ \E api_key \in ApiKeys : http_dispatch(api_key)
       /\ UNCHANGED other_than_http
    \/ /\ \E available \in BOOLEAN : redis_connection(available)
       /\ UNCHANGED other_than_http
    \/ /\ window_expires
       /\ UNCHANGED other_than_http

SpecHttp == Init /\ [][NextHttp]_vars

NextBoundary ==
    \/ /\ \E tool_name \in ToolCalls, params_ok \in BOOLEAN :
              execute_tool_boundary(tool_name, params_ok)
       /\ UNCHANGED other_than_boundary
    \/ /\ Tick
       /\ UNCHANGED other_than_orchestrator

SpecBoundary == Init /\ [][NextBoundary]_vars

\* the session transport with its connection loops and its heartbeat loop;
\* what is in the two maps does not depend on the clock, which stands still
\* here
NextSocket ==
    \/ /\ \E c \in Clients : handle_connection(c)
       /\ UNCHANGED other_than_session
    \/ /\ \E c \in Clients, f \in Faults : receive_message(c, f)
       /\ UNCHANGED other_than_session
    \/ /\ \E c \in Clients : disconnect(c)
       /\ UNCHANGED other_than_session
    \/ /\ heartbeat_monitor
       /\ UNCHANGED other_than_heartbeat
    \/ /\ \E c \in Clients, r \in Results : heartbeat_send(c, r)
       /\ UNCHANGED other_than_heartbeat

SpecSocket == Init /\ [][NextSocket]_vars

NextNested ==
    \/ /\ connect
       /\ UNCHANGED other_than_stdio
    \/ /\ disconnect_all
       /\ UNCHANGED other_than_nested
    \/ /\ \E method \in Methods \ {Missing} : register_handler(method)
       /\ UNCHANGED other_than_stdio
    \/ /\ \E t \in Tasks : send_request(t)
       /\ UNCHANGED other_than_stdio
    \/ /\ \E message \in Messages : read_line(message)
       /\ UNCHANGED other_than_nested
    \/ /\ \E message \in Messages : handler_sends(message)
       /\ UNCHANGED other_than_nested
    \/ /\ \E t \in Tasks : resume(t)
       /\ UNCHANGED other_than_stdio
    \/ /\ handler_resumes
       /\ UNCHANGED other_than_nested

SpecNested == Init /\ [][NextNested]_vars

\* the event loop runs every task that can run, and the peer answers the
\* request of the handler: the line with the handler's id is there to be
\* read whenever the read loop reads
FairSpecNested ==
    /\ SpecNested
    /\ \A t \in Tasks : WF_vars(resume(t) /\ UNCHANGED other_than_stdio)
    /\ WF_vars(handler_resumes /\ UNCHANGED other_than_nested)
    /\ WF_vars(/\ \E message \in Messages :
                      /\ message.id = handler_call.id
                      /\ read_line(message)
               /\ UNCHANGED other_than_nested)

NextMonitor ==
    \/ /\ \E message_type \in MessageKinds : record_message(message_type)
       /\ UNCHANGED other_than_monitor
    \/ /\ \E error_type \in ErrorKinds : record_error(error_type)
       /\ UNCHANGED other_than_monitor
    \/ /\ rotate_metrics
       /\ UNCHANGED other_than_monitor
    \/ /\ Tick
       /\ UNCHANGED other_than_orchestrator

SpecMonitor == Init /\ [][NextMonitor]_vars

\* the event loop runs every task that can run: a caller whose future is
\* done and the consumer of listen(); whether lines arrive is the peer's
\* choice
FairSpecStdio ==
    /\ SpecStdio
    /\ \A t \in Tasks : WF_vars(resume(t) /\ UNCHANGED other_than_stdio)
    /\ WF_vars(listen /\ UNCHANGED other_than_stdio)

\* ------------------------------------------------------------- the claims
Running == {id \in DOMAIN active_workflows : active_workflows[id].status = "running"}
Refused == {id \in DOMAIN active_workflows : active_workflows[id].error = CeilingMessage}
Terminal(state) == state.status \in {"completed", "failed"}
InProgress == {t \in Tasks : pc[t] # "idle"}

\* C1: the number of executions in status running, and the active gauge
\* that mirrors it, never exceed max_concurrent_workflows, also at the
\* instant between the insertion of a record and its ceiling test.
C1_CeilingNeverExceeded ==
    /\ Cardinality(Running) <= max_concurrent_workflows
    /\ active_gauge = Cardinality(Running)

\* concurrent callers: admitted executions are running and one more caller
\* has inserted its record, so the running count is at the ceiling
C1_Witness ==
    /\ Cardinality(Running) = max_concurrent_workflows
    /\ \E t \in Tasks : pc[t] = "executing"
    /\ \E t \in Tasks : pc[t] = "inserted"

\* C2: when max_concurrent_workflows + 1 calls were started concurrently on
\* a fresh orchestrator (nothing else happened, none has finished), exactly
\* one was refused for the ceiling and max_concurrent_workflows are running.
C2_ExactlyOneRefused ==
    ( /\ current = NoTask
      /\ now = max_concurrent_workflows + 1
      /\ Cardinality(DOMAIN active_workflows) = max_concurrent_workflows + 1
      /\ DOMAIN active_workflows = Running \cup Refused )
    => ( /\ Cardinality(Refused) = 1
         /\ Cardinality(Running) = max_concurrent_workflows )

\* the executions other than the caller's own that are running
OthersRunning(t) == Running \ {call[t].execution_id}

\* C3: a call is refused for the ceiling exactly when
\* max_concurrent_workflows other executions are running: records in a
\* terminal state do not count against the ceiling.
C3_TerminalDoNotCount ==
    [][\A t \in Tasks :
          (pc[t] = "inserted" /\ pc'[t] # "inserted")
          => ( (pc'[t] = "idle" /\ result'.message = CeilingMessage)
               <=> Cardinality(OthersRunning(t)) >= max_concurrent_workflows )]_vars

\* C4: a record's status changes only from running to completed or failed,
\* and a record in a terminal state is never written again while it is in
\* the map.
C4_TerminalIsFinal ==
    [][\A id \in DOMAIN active_workflows :
          id \in DOMAIN active_workflows'
          => /\ Terminal(active_workflows[id])
                  => active_workflows'[id] = active_workflows[id]
             /\ active_workflows'[id].status # active_workflows[id].status
                  => /\ active_workflows[id].status = "running"
                     /\ Terminal(active_workflows'[id])]_vars

\* a terminal record is still in the map after a later call has inserted
\* its own record and a cleanup or a status query has run
C4_Witness ==
    /\ result.kind \in {"cleanup", "state"}
    /\ \E id, later \in DOMAIN active_workflows :
          /\ Terminal(active_workflows[id])
          /\ later # id
          /\ active_workflows[later].start_time >= active_workflows[id].end_time

\* C5: a call refused for the ceiling leaves no execution record.
C5_RefusedLeavesNoRecord ==
    result.message = CeilingMessage
    => result.execution_id \notin DOMAIN active_workflows

C7_FirstCallsAdmitted ==
    ( /\ current = NoTask
      /\ now <= max_concurrent_workflows
      /\ Cardinality(DOMAIN active_workflows) = now
      /\ \A id \in DOMAIN active_workflows :
            active_workflows[id].error \in {"None", CeilingMessage} )
    => \A id \in DOMAIN active_workflows :
          active_workflows[id].status \in {"running", "completed"}

\* the records cleanup(max_age_hours) is to remove: terminal and aged out
TerminalOlderThan(max_age_hours) ==
    {id \in DOMAIN active_workflows :
        /\ Terminal(active_workflows[id])
        /\ (now - active_workflows[id].end_time) > max_age_hours * HourTicks}

\* C8: no step removes a running record, and a cleanup removes exactly the
\* terminal records whose end time is older than the threshold.
C8_CleanupRemovesTerminalAged ==
    [][/\ \A id \in Running : id \in DOMAIN active_workflows'
       /\ \A h \in MaxAgeChoices :
             cleanup_completed_workflows(h)
             => DOMAIN active_workflows'
                    = (DOMAIN active_workflows) \ TerminalOlderThan(h)]_vars

\* a cleanup has removed a record while a running record older than the
\* largest threshold stayed
C8_Witness ==
    /\ result.kind = "cleanup"
    /\ result.removed >= 1
    /\ \E id \in Running : (now - active_workflows[id].start_time) > HourTicks

\* C9: a call with an unregistered workflow id or a service outside the
\* allow-list never starts an execution, leaves the map, the gauge and every
\* caller's position as they were, and the validation error names exactly
\* the services outside the allow-list.
C9_RejectedBeforeInvocation ==
    [][/\ \A t \in Tasks :
             (pc[t] = "idle" /\ pc'[t] # "idle")
             => /\ call'[t].workflow_id \in DOMAIN workflows
                /\ call'[t].context.enabled_services \subseteq valid_services
       /\ \A t \in Tasks, e \in Entries, w \in WorkflowIds, c \in Contexts :
             ( /\ execute_workflow(t, e, w, c)
               /\ \/ w \notin DOMAIN workflows
                  \/ ~(c.enabled_services \subseteq valid_services) )
             => /\ active_workflows' = active_workflows
                /\ active_gauge' = active_gauge
                /\ pc' = pc
                /\ result'.kind \in {"ValueError", "MCPError"}
                /\ w \in DOMAIN workflows
                     => result'.names = c.enabled_services \ valid_services]_vars

\* a call was rejected for its services on an orchestrator that has
\* executed workflows, and the error names the one invalid service
C9_Witness ==
    /\ result.message = "Invalid services"
    /\ result.names = {"invalid_service"}
    /\ active_workflows # << >>

\* C10: a workflow body is invoked only for a context in which every
\* enabled service has a sub-config entry.
C10_MissingConfigRejected ==
    \A t \in Tasks : pc[t] = "executing" => validate(call[t].context)


\* C11: an execution whose CPU time exceeds max_cpu_time_seconds never ends
\* completed: a completed record carries a CPU time within the limit, and the
\* exit that stores the CPU failure leaves the record failed with that
\* reason, hands ResourceExhaustion (an MCPError through the handler) to the
\* caller, gives the gauge back and leaves the event loop and the caller
\* free for further calls
C11_CpuExceededFails ==
    /\ [](\A id \in DOMAIN active_workflows :
             active_workflows[id].status = "completed"
                 => /\ active_workflows[id].results # None
                    /\ active_workflows[id].results <= max_cpu_time_seconds)
    /\ [][\A t \in Tasks :
             (pc[t] = "executing" /\ pc'[t] = "idle")
                 => LET id == call[t].execution_id
                    IN /\ id \in DOMAIN active_workflows'
                       /\ Terminal(active_workflows'[id])
                       /\ current' = NoTask
                       /\ active_gauge' = active_gauge - 1
                       /\ active_workflows'[id].error = CpuMessage
                              => /\ active_workflows'[id].status = "failed"
                                 /\ active_workflows'[id].results = None
                                 /\ result'.kind \in {"ResourceExhaustion", "MCPError"}
                                 /\ result'.message = CpuMessage
                                 /\ result'.execution_id = id]_vars

\* a record failed for CPU time, and a call made after that failure
C11_Witness ==
    \E id, later \in DOMAIN active_workflows :
        /\ active_workflows[id].status = "failed"
        /\ active_workflows[id].error = CpuMessage
        /\ later # id
        /\ active_workflows[later].start_time >= active_workflows[id].end_time

\* C12: a registered id keeps its first class for ever; the registration
\* that answers "already registered" raises ValueError and leaves the
\* registry as it was, and a registration that changes the registry adds
\* exactly one id that was not registered
C12_DuplicateRegistrationFails ==
    [][/\ \A w \in DOMAIN workflows :
              w \in DOMAIN workflows' /\ workflows'[w] = workflows[w]
       /\ (result' # result /\ result'.message = "already registered")
              => /\ result'.kind = "ValueError"
                 /\ workflows' = workflows
                 /\ workflows # << >>
       /\ workflows' # workflows
              => /\ Cardinality(DOMAIN workflows') = Cardinality(DOMAIN workflows) + 1
                 /\ result' = NoResult]_vars

\* a second registration of the id has been refused
C12_Witness ==
    /\ "test" \in DOMAIN workflows
    /\ result.kind = "ValueError"
    /\ result.message = "already registered"

\* the messages of client_id accepted in the window that ends at time t
InWindow(client_id, t) ==
    {i \in 1..Len(accepted[client_id]) :
        /\ accepted[client_id][i] > t - WindowTicks
        /\ accepted[client_id][i] <= t}

\* a step in which the loop of client_id took a message and the check
\* answered verdict
Checked(client_id, verdict) ==
    /\ received' = received + 1
    /\ last_message'.client_id = client_id
    /\ last_message'.verdict = verdict

C14_RejectedMessage ==
    /\ [](last_message.verdict = "reject"
             => /\ last_message.code = "RATE_LIMIT_EXCEEDED"
                /\ ~last_message.processed)
    /\ [](last_message.code = "RATE_LIMIT_EXCEEDED"
             => last_message.verdict = "reject")
    /\ [][\A c \in Clients :
             Checked(c, "reject")
                 => /\ connection_metadata' = connection_metadata
                    /\ accepted' = accepted
                    /\ protocol_violations' = protocol_violations + 1
                    /\ c \in active_connections'
                    /\ c \in DOMAIN connection_metadata']_vars

\* a message was rejected and the same connection had a later message
\* accepted
C14_Witness ==
    \E c \in Clients :
        /\ protocol_violations = 1
        /\ Len(accepted[c]) = RateLimit + 1
        /\ last_message.client_id = c
        /\ last_message.verdict = "accept"
        /\ c \in active_connections

\* C15 as stated: a rate check that hits an internal error answers reject
\* and the message is not processed
C15_ErrorAnswersReject ==
    last_message.fault # "none"
        => /\ last_message.verdict = "reject"
           /\ ~last_message.processed

\* C15 amended: a rate check that hits an internal error raises; the loop
\* answers INTERNAL_ERROR, does not reach the call of _process_message,
\* stores no timestamp and keeps the connection
C15_ErrorRaisesNotProcessed ==
    /\ [](last_message.fault # "none"
             => /\ last_message.verdict = "raise"
                /\ last_message.code = "INTERNAL_ERROR"
                /\ ~last_message.processed)
    /\ [](last_message.verdict = "raise" => ~last_message.processed)
    /\ [][\A c \in Clients :
             Checked(c, "raise")
                 => /\ connection_metadata' = connection_metadata
                    /\ accepted' = accepted
                    /\ c \in active_connections']_vars

\* the check failed while it recorded a violation
C15_Witness ==
    /\ last_message.verdict = "raise"
    /\ last_message.fault = "record"
    /\ protocol_violations >= 1
    /\ last_message.client_id \in active_connections

\* the admitted calls of tool in the window that ends at time t
Admitted(tool, t) ==
    {i \in 1..Len(admitted_calls[tool]) :
        /\ admitted_calls[tool][i] > t - WindowTicks
        /\ admitted_calls[tool][i] <= t}

\* C16 as stated: on every call the per-tool limiter answers what the
\* sliding window answers on the same sequence of call times
C16_SameAsSlidingWindow ==
    last_call.admitted = last_call.window_admitted

\* C16 amended: the per-tool limiter is a counter that restarts only when a
\* call comes more than a window after the last admitted call; it never
\* admits more than rate_limit calls in a window, and it admits a call
\* only when fewer than rate_limit admitted calls lie in the window that
\* ends at the call
C16_CounterBoundsWindow ==
    /\ [](\A tool \in DOMAIN rate_limits :
             /\ rate_limits[tool].count <= rate_limit(tool)
             /\ \A t \in 0..MaxTime :
                    Cardinality(Admitted(tool, t)) <= rate_limit(tool))
    /\ [][\A tool \in Tools :
             admitted_calls'[tool] # admitted_calls[tool]
                 => /\ Cardinality(Admitted(tool, now)) < rate_limit(tool)
                    /\ admitted_calls'[tool] = Append(admitted_calls[tool], now)
                    /\ rate_limits'[tool].last_execution = now]_vars

\* the limiter has refused a call that the sliding window lets through
C16_Witness ==
    /\ last_call.tool = "limited"
    /\ ~last_call.admitted
    /\ last_call.window_admitted
    /\ Cardinality(Admitted("limited", now)) < RateLimit

\* C17: a future is completed only by the line that carries the id of its
\* own request, with that line's result or error, and the step completes no
\* other future; the pending map leads from each id to the caller waiting
\* for it, so a caller resumes with the answer to its own request
C17_OwnWaiterOnly ==
    /\ [](\A t \in Tasks :
             request[t].future \in {"result", "exception"}
                 => request[t].reply = request[t].id)
    /\ [](\A id \in DOMAIN pending_requests :
             /\ request[pending_requests[id]].id = id
             /\ request[pending_requests[id]].future # "none")
    /\ [][\A t \in Tasks :
             (request[t].future = "pending"
                  /\ request'[t].future \in {"result", "exception"})
                 => /\ last_processed'.pending
                    /\ last_processed'.id = request[t].id
                    /\ (request'[t].future = "exception")
                           <=> (last_processed'.body = "error")
                    /\ request[t].id \notin DOMAIN pending_requests'
                    /\ \A u \in Tasks \ {t} : request'[u] = request[u]]_vars

\* two requests in flight, the later one answered first
C17_Witness ==
    \E t, u \in Tasks :
        /\ request[t].future = "pending"
        /\ request[u].future \in {"result", "exception"}
        /\ request[u].id > request[t].id
        /\ request[u].reply = request[u].id

\* C18 as stated: no send_request waits for ever, every waiting call ends
C18_NoWaitForEver ==
    \A t \in Tasks :
        (request[t].future = "pending") ~> (request[t].future # "pending")

\* C19 as stated: a parsed line that carries a result or an error under an
\* id that is not pending runs no handler and causes no outbound message
C19_UnknownResponseDiscarded ==
    (/\ last_processed.parsed
     /\ ~last_processed.pending
     /\ last_processed.id # None
     /\ last_processed.body \in {"result", "error"})
        => /\ ~last_processed.handler_ran
           /\ ~last_processed.sent

\* C20 as stated: the n-th incoming message is in the end the n-th message
\* that listen() yields
C20_IncomingYieldedInOrder ==
    /\ \A n \in 1..MaxIncoming : (incoming >= n) ~> (Len(yielded) >= n)
    /\ [](\A i \in 1..Len(yielded) : yielded[i] = i)

\* the websockets that were stored for client_id and are still open
OpenSessions(client_id) ==
    {w \in Sockets :
        /\ websocket_state[w] = "open"
        /\ w \notin DOMAIN registering
        /\ <<client_id, w>> \in active_tasks}

\* C21 as stated: an identity never has two open sessions, and while the
\* websocket of the last register_connection that returned is open the
\* identity is bound to it, with the metadata of that call
C21_OneSessionPerIdentity ==
    \A c \in Clients :
        /\ Cardinality(OpenSessions(c)) <= 1
        /\ (bound[c] # NoSocket /\ websocket_state[bound[c]] = "open")
               => /\ c \in DOMAIN connections
                  /\ connections[c] = bound[c]
                  /\ c \in DOMAIN manager_metadata
                  /\ manager_metadata[c].websocket = bound[c]

\* the heartbeat to client_id got its result in this step
HeartbeatResult(client_id, outcome) ==
    /\ client_id \notin DOMAIN heartbeat_round.sent
    /\ client_id \in DOMAIN heartbeat_round'.sent
    /\ heartbeat_round'.sent[client_id] = outcome

\* C22: every heartbeat round sends a heartbeat to every session that was
\* open when the round began; a session whose send fails is gone from the
\* connection map and from the metadata map when that send is over, a
\* session whose send succeeds stays in both, and a failed send does not
\* keep the round from reaching the other sessions: a round under way
\* comes to its end, and a round that is over has sent to every session of
\* its copy.
C22_HeartbeatRound ==
    /\ [][\A c \in Clients :
            /\ HeartbeatResult(c, "failed") =>
                   /\ c \notin active_connections'
                   /\ c \notin DOMAIN connection_metadata'
            /\ HeartbeatResult(c, "ok") =>
                   /\ c \in active_connections'
                   /\ c \in DOMAIN connection_metadata'
                   /\ active_connections' = active_connections
                   /\ connection_metadata' = connection_metadata]_vars
    /\ [](~heartbeat_round.running =>
              DOMAIN heartbeat_round.sent = heartbeat_round.snapshot)
    /\ \A c \in Clients :
           (heartbeat_round.running /\ c \in heartbeat_round.snapshot)
               ~> (~heartbeat_round.running
                       /\ c \in DOMAIN heartbeat_round.sent)

\* a round is over in which one send failed and one succeeded
C22_Witness ==
    /\ ~heartbeat_round.running
    /\ \E c, d \in DOMAIN heartbeat_round.sent :
           /\ heartbeat_round.sent[c] = "failed"
           /\ heartbeat_round.sent[d] = "ok"
           /\ c \notin active_connections
           /\ c \notin DOMAIN connection_metadata
           /\ d \in active_connections

\* the session is open and its last heartbeat is older than the threshold
Stale(client_id) ==
    /\ client_id \in active_connections
    /\ last_heartbeat[client_id] # None
    /\ now - last_heartbeat[client_id] > DeadTicks

\* C23: a session whose last observed activity is older than the
\* dead-connection threshold is in the end evicted by the heartbeat loops,
\* whether or not a send to it fails.
C23_StaleEvicted ==
    \A c \in Clients : Stale(c) ~> (c \notin active_connections)

\* C24: whatever the interleaving of the calls of one tool, while every
\* handler run of the tool has returned the tool's total_calls and
\* successful_calls both equal the number of those runs and its duration
\* samples are as many, cut to the last DurationsKept.
C24_NoLostUpdate ==
    \A name \in DOMAIN metrics :
        ended[name].raised = 0 =>
            /\ metrics[name].total_calls = ended[name].returned
            /\ metrics[name].successful_calls = ended[name].returned
            /\ metrics[name].failed_calls = 0
            /\ Len(metrics[name].durations) =
                   Min(ended[name].returned, DurationsKept)

\* all the callers were in their handler at once, every call returned and
\* the samples were cut
C24_Witness ==
    /\ ended["echo"].returned = MaxCalls
    /\ ended["echo"].raised = 0
    /\ ended["echo"].peak = NumCallers
    /\ "echo" \in DOMAIN metrics
    /\ metrics["echo"].total_calls = MaxCalls
    /\ Len(metrics["echo"].durations) = DurationsKept
    /\ DurationsKept < MaxCalls

\* the handler run of task t ended with an exception in this step
HandlerRaised(t) ==
    /\ executing[t] # ""
    /\ executing'[t] = ""
    /\ tool_result'.task = t
    /\ tool_result'.outcome = "raised"

\* C25: when a tool handler raises, the tool's total_calls and
\* failed_calls go up by one each, successful_calls stays, last_error is
\* set, one error bucket goes up by one and no other changes, and the
\* caller receives an ExecutionError.
C25_HandlerFailure ==
    [][\A t \in Tasks :
         HandlerRaised(t) =>
            LET name == executing[t]
                before == get_or_create_metrics(name)
                after == metrics'[name]
                buckets == DOMAIN after.errors
            IN /\ after.total_calls = before.total_calls + 1
               /\ after.failed_calls = before.failed_calls + 1
               /\ after.successful_calls = before.successful_calls
               /\ after.last_error # NoError
               /\ \E bucket \in buckets :
                      /\ after.errors[bucket] =
                             errors_get(before.errors, bucket) + 1
                      /\ \A other \in buckets \ {bucket} :
                             after.errors[other] =
                                 errors_get(before.errors, other)
               /\ tool_result'.error = "ExecutionError"]_vars

\* C26: registering a tool that passes validation under a name that is
\* registered already returns normally and changes nothing: the registry
\* keeps the definition it had and the tool's metrics stay as they were.
C26_DuplicateIsNoOp ==
    [][\A tool \in SampleTools :
         (register_tool(tool) /\ validate_tool(tool)
              /\ tool.name \in DOMAIN tools) =>
            /\ last_registration'.outcome = "returned"
            /\ tools' = tools
            /\ metrics' = metrics]_vars

\* echo was registered again with another definition after calls of it
\* were counted; the first definition and the counts are still there
C26_Witness ==
    /\ last_registration.outcome = "returned"
    /\ ~last_registration.added
    /\ last_registration.tool.name \in DOMAIN tools
    /\ tools[last_registration.tool.name] # last_registration.tool
    /\ metrics[last_registration.tool.name].total_calls > 0

\* what the claim calls a tool that must be refused
Refusable(tool) ==
    \/ tool.name = ""
    \/ tool.description = ""
    \/ tool.version = ""
    \/ "required_params" \notin tool.capabilities
    \/ "param_types" \notin tool.capabilities
    \/ (tool.rate_limit # None /\ tool.rate_limit <= 0)
    \/ (tool.timeout # None /\ tool.timeout <= 0)

\* C27: register_tool fails and adds nothing for every tool with an empty
\* name, description or version, without the required-parameter list or
\* the parameter-kind map, or with a rate limit or timeout that is zero or
\* negative.
C27_InvalidToolRefused ==
    (last_registration.outcome # "none"
         /\ Refusable(last_registration.tool)) =>
        /\ last_registration.outcome = "SecurityError"
        /\ ~last_registration.added

\* C28: on every inbound path a message longer than max_message_size_bytes
\* is answered with the size error and no handler runs for it.
C28_OversizedRejected ==
    (inbound.path \in {"middleware", "orchestrator"}
         /\ inbound.message.oversized) =>
        /\ answer.code \in {"MESSAGE_TOO_LARGE", "INVALID_REQUEST"}
        /\ ~answer.handler_ran

\* the code the claimed order of the checks gives a message, "ok" when no
\* check fails
first_violation(data) ==
    IF data.oversized THEN "MESSAGE_TOO_LARGE"
    ELSE IF data.protocol_version \notin ProtocolVersions
    THEN "INVALID_PROTOCOL_VERSION"
    ELSE IF data.message_type \notin MessageTypes
    THEN "INVALID_MESSAGE_TYPE"
    ELSE IF data.message_id = None
            \/ data.message_id > max_message_id_length
    THEN "INVALID_MESSAGE_ID"
    ELSE IF data.message_type = "request" /\ "method" \notin data.fields
    THEN "MISSING_REQUEST_FIELDS"
    ELSE IF data.message_type = "response" /\ "request_id" \notin data.fields
    THEN "MISSING_RESPONSE_FIELDS"
    ELSE IF data.message_type = "event"
            /\ ~({"event_type", "data"} \subseteq data.fields)
    THEN "MISSING_EVENT_FIELDS"
    ELSE "ok"

\* C29: a message that breaks several rules is answered with the code of
\* the first broken rule in the order size, protocol version, message
\* type, message id, fields of its type; a request without method that
\* breaks no other rule is answered with MISSING_REQUEST_FIELDS.
C29_FirstViolationReported ==
    (/\ inbound.path = "middleware"
     /\ inbound.message.protocol_version # Absent
     /\ inbound.message.message_type # Absent
     /\ first_violation(inbound.message) # "ok") =>
        answer.code = first_violation(inbound.message)

\* C30: create_message fails with the code INVALID_MESSAGE_TYPE for a
\* message type outside the closed set and with INVALID_PROTOCOL_VERSION
\* for a protocol version that is not supported.
C30_SpecificCodeReachesCaller ==
    inbound.path = "factory" =>
        /\ (inbound.message.message_type \notin MessageTypes \cup {Absent})
               => answer.code = "INVALID_MESSAGE_TYPE"
        /\ (/\ inbound.message.message_type \in MessageTypes
            /\ inbound.message.protocol_version \notin
                   ProtocolVersions \cup {Absent})
               => answer.code = "INVALID_PROTOCOL_VERSION"

\* a frame that is no JSON or whose message create_message refuses
Malformed(frame) ==
    ~frame.decodable \/ create_message(frame.data) # "ok"

\* C31: a malformed or unsupported message is answered with an error and
\* leaves the connection open, and a well-formed request that follows it
\* on the same connection is executed.
C31_FatalToTheMessageOnly ==
    \A i \in 1..Len(frames) :
        Malformed(frames[i].frame) =>
            /\ frames[i].sent \notin {"none", "RESPONSE"}
            /\ frames[i].open_after
            /\ \A j \in (i + 1)..Len(frames) :
                   (~Malformed(frames[j].frame)
                        /\ frames[j].frame.data.message_type = "request")
                       => frames[j].executed

\* C32: while the cache is unavailable the HTTP security layer rejects no
\* request that carries a key of the accepted form, neither for its key
\* nor for its rate.
C32_FailsOpen ==
    (http_response.status # 0 /\ ~http_response.redis
         /\ startswith_mcp(http_response.api_key)) =>
        http_response.status = 200

\* the disconnect watcher that was started for websocket under client_id
\* ends in this step
WatcherEnds(client_id, websocket) ==
    /\ <<client_id, websocket>> \in active_tasks
    /\ <<client_id, websocket>> \notin active_tasks'

\* C33: once a websocket has replaced another under an identity, the end
\* of the watcher of the replaced websocket leaves the binding of the
\* identity and its metadata as they are.
C33_ReplacingSessionPersists ==
    [][\A c \in Clients, w \in Sockets :
           (/\ WatcherEnds(c, w)
            /\ c \in DOMAIN connections
            /\ connections[c] # w)
               => /\ c \in DOMAIN connections'
                  /\ connections'[c] = connections[c]
                  /\ c \in DOMAIN manager_metadata'
                  /\ manager_metadata'[c] = manager_metadata[c]]_vars

\* execute_tool has refused the call of this step before the handler
RejectedAtBoundary ==
    /\ boundary_call' # boundary_call \/ rate_limits' # rate_limits
    /\ boundary_call'.error # "none"

\* C34: a tool call that is refused at the boundary (tool not registered,
\* rate limit reached, parameters invalid) leaves the rate-limit state of
\* the tools as it was.
C34_RejectedCallChangesNothing ==
    [][RejectedAtBoundary => rate_limits' = rate_limits]_vars

C36_SameKeySet ==
    /\ [](active_connections = DOMAIN connection_metadata)
    /\ [][\A c \in issued :
             /\ c \notin active_connections => c \notin active_connections'
             /\ c \notin DOMAIN connection_metadata
                    => c \notin DOMAIN connection_metadata']_vars

\* C37: a handler that the read loop runs and that waits in send_request
\* for an answer of the peer does not wait for ever: the answer is read and
\* the wait of the handler ends.
C37_ReaderNotBlocked ==
    (handler_call.future = "pending") ~> (handler_call.future # "pending")

\* the admitted calls of tool in the interval of one window's length that
\* ends at time t, both ends included
AdmittedWithin(tool, t) ==
    {i \in 1..Len(admitted_calls[tool]) :
        /\ admitted_calls[tool][i] >= t - WindowTicks
        /\ admitted_calls[tool][i] <= t}

\* C38: a tool with rate limit L has at most L admitted calls in any
\* interval of 60 seconds; a call within 60 seconds of the last admitted
\* call while the count is L is refused and leaves the state of the limiter
\* as it was; a call more than 60 seconds after the last admitted call is
\* admitted and sets the count to 1; a tool without rate limit is never
\* refused.
C38_AtMostLPerWindow ==
    /\ [](\A tool \in DOMAIN rate_limits, t \in 0..MaxTime :
             Cardinality(AdmittedWithin(tool, t)) <= rate_limit(tool))
    /\ [][now' = now =>
             LET tool == last_call'.tool
             IN /\ (/\ tool \in DOMAIN rate_limits
                    /\ now - rate_limits[tool].last_execution <= WindowTicks
                    /\ rate_limits[tool].count = rate_limit(tool))
                       => /\ ~last_call'.admitted
                          /\ rate_limits' = rate_limits
                          /\ admitted_calls' = admitted_calls
                /\ (/\ tool \in DOMAIN rate_limits
                    /\ now - rate_limits[tool].last_execution > WindowTicks)
                       => /\ last_call'.admitted
                          /\ rate_limits'[tool] =
                                 [last_execution |-> now, count |-> 1]
                /\ rate_limit(tool) = None => last_call'.admitted]_vars

\* a call was refused a full window after the last admitted call, with the
\* count at the limit
C38_Witness ==
    /\ last_call.tool = "limited"
    /\ ~last_call.admitted
    /\ rate_limits["limited"].count = RateLimit
    /\ now - rate_limits["limited"].last_execution = WindowTicks

\* C39: execute_tool calls the handler only when the lookup of the tool,
\* the rate-limit check and the check of the parameters have succeeded, and
\* runs them in this order: the rate limit is checked for a tool that was
\* found, the parameters are checked for a call the limiter has admitted;
\* a call that fails a step does not reach the handler.
C39_HandlerAfterChecks ==
    /\ boundary_call.handler_invoked
           => /\ boundary_call.looked_up
              /\ boundary_call.rate_checked
              /\ boundary_call.params_checked
              /\ boundary_call.error = "none"
    /\ boundary_call.params_checked
           => /\ boundary_call.rate_checked
              /\ last_call.tool = boundary_call.tool
              /\ last_call.admitted
    /\ boundary_call.rate_checked
           => /\ boundary_call.looked_up
              /\ boundary_call.tool \in Tools
    /\ boundary_call.error # "none" => ~boundary_call.handler_invoked

\* the handler was called for the call that took the last slot of the
\* limited tool
C39_Witness ==
    /\ boundary_call.handler_invoked
    /\ boundary_call.tool = "limited"
    /\ rate_limits["limited"].count = RateLimit

\* the bucket holds a record
HasRecords(bucket) ==
    DOMAIN bucket.message_counts # {} \/ DOMAIN bucket.error_counts # {}

\* C40: rotate_metrics puts the current bucket as it is at the end of the
\* history and starts an empty current bucket; and as long as no bucket
\* has aged out of the metrics window the aggregated totals are the numbers
\* of record_message and record_error calls made so far, so that no record
\* is lost or counted twice.
C40_RotationLosesNothing ==
    /\ [][(rotations' = rotations + 1 /\ HasRecords(current_metrics)) =>
             /\ historical_metrics' =
                    Append(historical_metrics, current_metrics)
             /\ current_metrics' = ProtocolMetrics(now)]_vars
    /\ [](~aged_out =>
             /\ get_aggregated_metrics.total_messages = recorded.messages
             /\ get_aggregated_metrics.total_errors = recorded.errors)
====
